---- MODULE Spec2Model ----
\* Requirement-Quality-Gate: the workflow of src/reqgate/workflow/graph.py
\* (guardrail -> structuring -> structure check | fallback -> scoring -> gate)
\* the pure functions it is built from, and concurrent runs in one process.
EXTENDS Integers, Sequences, FiniteSets, TLC

VARIABLES
    config,       \* WorkflowConfig given to run_workflow
    rubric,       \* condition of the rubric file read by RubricLoader
    state,        \* AgentState of the run
    pc,           \* node the graph executes next, or START / END / returned / raised
    raised,       \* exception that left run_workflow (None until then)
    trace,        \* nodes executed so far, in order
    llm_calls,    \* LLMClient.invoke calls made by each stage
    pre_penalty,  \* total_score of the report as ScoringAgent.score returned it
    guard_passed, \* GuardrailResult.passed of the run's guardrail check
    unit,         \* one call of a pure function: its arguments and its result
    _llm_client,  \* the module global of adapters/llm.py
    constructed,  \* OpenRouterClient instances constructed in the process
    threads,      \* concurrent run_workflow calls: position, locals, state dict
    heap          \* the list and dict objects the state dicts refer to

\* the process-wide variables of concurrent runs
conc_vars == <<_llm_client, constructed, threads, heap>>

vars == <<config, rubric, state, pc, raised, trace, llm_calls, pre_penalty,
          guard_passed, unit, conc_vars>>

\* ---------------------------------------------------------------- options
None == <<>>
Some(x) == <<x>>
Val(o) == o[1]

Max(a, b) == IF a >= b THEN a ELSE b

\* ---------------------------------------------------------------- bounds
MaxBlockers == 1
MaxAC == 2
MaxUnitRetries == 5
MaxModels == 2
MaxLayeredRetries == 1
MaxAttachments == 1
MaxThreads == 2
MaxConfigRetries == 1

\* ---------------------------------------------------------------- constants
ScoreMin == 0
ScoreMax == 100
FallbackPenalty == 5
FeatureThreshold == 60
BugThreshold == 50
DefaultMinLength == 50
DefaultMaxLength == 10000
DefaultMaxRetries == 3
MIN_AC_COUNT == 2
MIN_USER_STORY_LENGTH == 20
MIN_TITLE_LENGTH == 10
MAX_TITLE_LENGTH == 200

TicketTypes == {"Feature", "Bug"}

\* ---------------------------------------------------------------- exceptions
\* The classes of workflow/errors.py derive from WorkflowExecutionError; every
\* class derives from Exception.
WorkflowErrors == {"WorkflowExecutionError", "GuardrailRejectionError",
                   "StructuringFailureError", "LLMTimeoutError", "LLMRateLimitError"}

\* an except clause that matches the named class only, not its subclasses
isinstance_exact(cls, handler) == handler = cls

\* does `except handler` catch an exception of class cls
isinstance(cls, handler) ==
    \/ handler = "Exception"
    \/ handler = cls
    \/ handler = "WorkflowExecutionError" /\ cls \in WorkflowErrors

\* an exception object: its class, the stage attribute the workflow errors
\* carry, the fields of a guardrail rejection, and __cause__ (the class of the
\* exception it was raised from)
Exc(cls, stage) ==
    [type |-> cls, stage |-> stage, rejection_reason |-> "", errors |-> <<>>,
     pii_detected |-> <<>>, injection_detected |-> <<>>, cause |-> None]

\* ---------------------------------------------------------------- rubric
\* RubricLoader.load / get_scenario_config: the file may be missing
\* (FileNotFoundError) or hold a threshold that is not a number (the loader
\* does not validate the file's shape).
RubricStates == {"valid", "missing", "bad_threshold"}

get_scenario_config(rub, ticket_type) ==
    LET scenario == IF ticket_type = "Bug" THEN "BUG" ELSE "FEATURE"
    IN  IF rub = "missing"
        THEN [ok |-> FALSE, scenario |-> scenario, threshold |-> None]
        ELSE IF rub = "bad_threshold"
             THEN [ok |-> TRUE, scenario |-> scenario, threshold |-> None]
             ELSE [ok |-> TRUE, scenario |-> scenario,
                   threshold |-> Some(IF scenario = "BUG" THEN BugThreshold
                                                          ELSE FeatureThreshold)]

\* ---------------------------------------------------------------- gate
\* decide with the boundary score rejected
HardGate_decide_strict(report, ticket_type, rub) ==
    LET cfg == get_scenario_config(rub, ticket_type)
    IN  IF ~cfg.ok THEN "raise"
        ELSE IF report.blocking_issues > 0 THEN "REJECT"
        ELSE IF cfg.threshold = None THEN "raise"
        ELSE IF report.total_score <= Val(cfg.threshold) THEN "REJECT"
        ELSE "PASS"

\* decide with the score rule alone
HardGate_decide_no_blockers(report, ticket_type, rub) ==
    LET cfg == get_scenario_config(rub, ticket_type)
    IN  IF ~cfg.ok THEN "raise"
        ELSE IF cfg.threshold = None THEN "raise"
        ELSE IF report.total_score < Val(cfg.threshold) THEN "REJECT"
        ELSE "PASS"

\* HardGate.decide: "PASS", "REJECT", or "raise" when the rubric lookup or the
\* comparison with a non-numeric threshold throws.
HardGate_decide(report, ticket_type, rub) ==
    LET cfg == get_scenario_config(rub, ticket_type)
    IN  IF ~cfg.ok THEN "raise"
        ELSE IF report.blocking_issues > 0 THEN "REJECT"
        ELSE IF cfg.threshold = None THEN "raise"
        ELSE IF report.total_score < Val(cfg.threshold) THEN "REJECT"
        ELSE "PASS"

\* ---------------------------------------------------------------- guardrail
\* A text is described by what the guardrail reads from it: its stripped
\* length, the PII kinds whose regex matches, the injection phrases it contains.
PII_PATTERNS == <<"email", "phone">>
InjectionPhrases == <<"ignore previous instructions", "act as">>

SeqToSet(s) == {s[i] : i \in DOMAIN s}

TextLens == {10, DefaultMinLength, DefaultMaxLength + 1}
Texts == [len : TextLens, pii : SUBSET SeqToSet(PII_PATTERNS),
          inj : SUBSET SeqToSet(InjectionPhrases)]

\* GuardrailConfig: the defaults of the class, with the modes and actions a
\* config file may select.
\* get_guardrail() builds InputGuardrail from config/guardrail_config.yaml when
\* the file exists: a file that is not YAML, is empty, or holds a value the
\* config classes reject makes the constructor raise.
GuardrailConfigErrors == {"YAMLError", "AttributeError", "ValidationError"}

GuardrailConfigs ==
    [min_length : {DefaultMinLength}, max_length : {DefaultMaxLength},
     pii_enabled : BOOLEAN, pii_mode : {"strict", "lenient"},
     pii_patterns : {SeqToSet(PII_PATTERNS)},
     inj_enabled : BOOLEAN, inj_action : {"reject", "sanitize", "warn"},
     inj_patterns : {InjectionPhrases},
     default_mode : {"strict", "lenient"}]

ErrTooShort == "Input too short"
ErrTooLong == "Input too long"
ErrPII(t) == IF t = "email" THEN "PII detected (email)" ELSE "PII detected (phone)"
ErrInjection == "Prompt injection detected"

_validate_length(text, result, gc) ==
    LET r1 == IF text.len < gc.min_length
              THEN [result EXCEPT !.passed = FALSE,
                                  !.errors = Append(@, ErrTooShort)]
              ELSE result
    IN  IF text.len > gc.max_length
        THEN [r1 EXCEPT !.passed = FALSE, !.errors = Append(@, ErrTooLong)]
        ELSE r1

\* the PII check strict only when the effective mode is
DetectPiiKind_effective_only(text, result, mode, gc, t) ==
    IF t \notin gc.pii_patterns \/ t \notin text.pii THEN result
    ELSE LET r1 == [result EXCEPT !.pii_detected = Append(@, t)]
         IN  IF mode = "strict"
             THEN [r1 EXCEPT !.passed = FALSE, !.errors = Append(@, ErrPII(t))]
             ELSE [r1 EXCEPT !.warnings = Append(@, ErrPII(t))]

\* one iteration of the loop of _detect_pii, for PII kind t
DetectPiiKind(text, result, mode, gc, t) ==
    IF t \notin gc.pii_patterns \/ t \notin text.pii THEN result
    ELSE LET r1 == [result EXCEPT !.pii_detected = Append(@, t)]
         IN  IF mode = "strict" \/ gc.pii_mode = "strict"
             THEN [r1 EXCEPT !.passed = FALSE, !.errors = Append(@, ErrPII(t))]
             ELSE [r1 EXCEPT !.warnings = Append(@, ErrPII(t))]

RECURSIVE DetectPiiFrom(_, _, _, _, _)
DetectPiiFrom(text, result, mode, gc, i) ==
    IF i > Len(PII_PATTERNS) THEN result
    ELSE DetectPiiFrom(text, DetectPiiKind(text, result, mode, gc, PII_PATTERNS[i]),
                       mode, gc, i + 1)

_detect_pii(text, result, mode, gc) == DetectPiiFrom(text, result, mode, gc, 1)

_detect_injection(text, result, gc) ==
    LET detected == SelectSeq(gc.inj_patterns, LAMBDA p : p \in text.inj)
    IN  IF detected = <<>> THEN result
        ELSE LET r1 == [result EXCEPT !.injection_detected = detected]
             IN  CASE gc.inj_action = "reject" ->
                        [r1 EXCEPT !.passed = FALSE,
                                   !.errors = Append(@, ErrInjection)]
                   [] gc.inj_action = "warn" ->
                        [r1 EXCEPT !.warnings = Append(@, "Potential prompt injection")]
                   [] OTHER ->
                        [r1 EXCEPT !.sanitized_text =
                                       [text EXCEPT !.inj = @ \ SeqToSet(detected)],
                                   !.warnings = Append(@, "Sanitized prompt injection patterns")]

\* InputGuardrail.validate(text, mode); mode is None or Some(mode)
validate(text, mode, gc) ==
    LET effective_mode == IF mode = None THEN gc.default_mode ELSE Val(mode)
        r0 == [passed |-> TRUE, warnings |-> <<>>, errors |-> <<>>,
               sanitized_text |-> text, pii_detected |-> <<>>,
               injection_detected |-> <<>>]
        r1 == _validate_length(text, r0, gc)
        r2 == IF gc.pii_enabled THEN _detect_pii(text, r1, effective_mode, gc) ELSE r1
    IN  IF gc.inj_enabled THEN _detect_injection(text, r2, gc) ELSE r2

\* the test `"too short" in e` of the node: the only message holding the words
\* is the length error (masked PII and the phrase list hold neither).
ContainsTooShort(e) == e = ErrTooShort
ContainsTooLong(e) == e = ErrTooLong

\* the reason with the PII and injection tests ahead of the length tests
rejection_reason_pii_first(result) ==
    IF result.pii_detected # <<>> THEN "pii_detected"
    ELSE IF result.injection_detected # <<>> THEN "prompt_injection"
    ELSE IF \E i \in DOMAIN result.errors : ContainsTooShort(result.errors[i])
    THEN "too_short"
    ELSE IF \E i \in DOMAIN result.errors : ContainsTooLong(result.errors[i])
    THEN "too_long"
    ELSE "validation_failed"

\* the rejection reason input_guardrail_node derives from a failed result
rejection_reason(result) ==
    IF \E i \in DOMAIN result.errors : ContainsTooShort(result.errors[i])
    THEN "too_short"
    ELSE IF \E i \in DOMAIN result.errors : ContainsTooLong(result.errors[i])
    THEN "too_long"
    ELSE IF result.pii_detected # <<>> THEN "pii_detected"
    ELSE IF result.injection_detected # <<>> THEN "prompt_injection"
    ELSE "validation_failed"

\* ---------------------------------------------------------------- LLM calls
\* What one LLMClient.invoke call does: return a response, raise TimeoutError,
\* raise a RuntimeError naming a rate limit, or raise another RuntimeError.
GatewayOutcomes == {"ok", "timeout", "rate_limit", "error"}
GatewayScripts == [1..(DefaultMaxRetries + 1) -> GatewayOutcomes]

GatewayError(o) == IF o = "timeout" THEN "TimeoutError" ELSE "RuntimeError"

\* str(e) of the gateway's exception, as far as the code reads it: the
\* wrapper looks for "rate" and "limit" in it
GatewayMessage(o) ==
    IF o = "timeout" THEN "LLM request timeout"
    ELSE IF o = "rate_limit" THEN "LLM API error: rate limit exceeded"
    ELSE "LLM API error"

\* create_retry_decorator's default backoff limits, in seconds
DefaultMinWait == 2
DefaultMaxWait == 10

Min(a, b) == IF a <= b THEN a ELSE b

\* the backoff without its lower limit
wait_exponential_no_floor(attempt_number, min_wait, max_wait) ==
    Min(2 ^ (attempt_number - 1), max_wait)

\* tenacity's wait_exponential(multiplier=1, min=min_wait, max=max_wait) after
\* attempt attempt_number has failed: the exponential, capped, then floored
wait_exponential(attempt_number, min_wait, max_wait) ==
    Max(Max(0, min_wait), Min(2 ^ (attempt_number - 1), max_wait))

\* the seconds slept at each "wait" of events: the k-th sleep follows the
\* k-th attempt, and call_llm_with_retry builds its decorator with the
\* default limits
Sleeps(events) ==
    [k \in 1..Len(SelectSeq(events, LAMBDA e : e = "wait")) |->
        wait_exponential(k, DefaultMinWait, DefaultMaxWait)]

\* call_llm_with_retry, from attempt i on: tenacity stops after
\* max_retries + 1 attempts and re-raises the last retryable error, which the
\* wrapper turns into the typed error; other RuntimeErrors are not retried.
\* events lists the gateway invocations and the backoff sleeps in order;
\* response is the attempt whose answer is returned, origin the attempt whose
\* exception leaves the wrapper (as it is, or as the cause of the typed error).
RECURSIVE RetryFrom(_, _, _, _, _)
RetryFrom(script, max_retries, i, retry_count, events) ==
    LET o == script[i]
        ev == Append(events, "invoke")
    IN  IF o = "ok"
        THEN [status |-> "ok", attempts |-> i, retry_count |-> retry_count,
              events |-> ev, waits |-> Sleeps(ev), response |-> Some(i),
              origin |-> None]
        ELSE IF o = "error"
        THEN [status |-> "RuntimeError", attempts |-> i, retry_count |-> retry_count,
              events |-> ev, waits |-> Sleeps(ev), response |-> None,
              origin |-> Some(i)]
        ELSE IF i >= max_retries + 1
        THEN [status |-> IF o = "timeout" THEN "LLMTimeoutError"
                                          ELSE "LLMRateLimitError",
              attempts |-> i, retry_count |-> retry_count + 1,
              events |-> ev, waits |-> Sleeps(ev), response |-> None,
              origin |-> Some(i)]
        ELSE RetryFrom(script, max_retries, i + 1, retry_count + 1,
                       Append(ev, "wait"))

\* the wrapper with stop_after_attempt(max_retries)
call_llm_with_retry_stop_at_max(script, max_retries) ==
    RetryFrom(script, max_retries - 1, 1, 0, <<>>)

\* the wrapper retrying timeouts only
call_llm_with_retry_timeouts_only(script, max_retries) ==
    RetryFrom([i \in DOMAIN script |->
                  IF script[i] = "rate_limit" THEN "error" ELSE script[i]],
              max_retries, 1, 0, <<>>)

\* the wrapper taking every RuntimeError for a rate limit
call_llm_with_retry_retry_all(script, max_retries) ==
    RetryFrom([i \in DOMAIN script |->
                  IF script[i] = "error" THEN "rate_limit" ELSE script[i]],
              max_retries, 1, 0, <<>>)

call_llm_with_retry(script, max_retries) == RetryFrom(script, max_retries, 1, 0, <<>>)

\* OpenRouterClient.invoke over models_to_try = [primary] + fallback models.
\* row[j] is what _call_model does for model j; the loop goes on to the next
\* model after a TimeoutError or RuntimeError, keeps the last error, and
\* raises it when no model is left. called lists the models called, in order.
RECURSIVE InvokeFrom(_, _, _, _)
InvokeFrom(row, j, called, last_error) ==
    IF j > Len(row)
    THEN [status |-> Val(last_error).kind, called |-> called, model |-> None,
          error_model |-> Some(Val(last_error).model)]
    ELSE IF row[j] = "ok"
    THEN [status |-> "ok", called |-> Append(called, j), model |-> Some(j),
          error_model |-> None]
    ELSE InvokeFrom(row, j + 1, Append(called, j),
                    Some([kind |-> row[j], model |-> j]))

\* invoke calling the primary model only
OpenRouterClient_invoke_primary_only(row) == InvokeFrom(<<row[1]>>, 1, <<>>, None)

\* invoke raising the first error it met
OpenRouterClient_invoke_first_error(row) ==
    LET r == InvokeFrom(row, 1, <<>>, None)
    IN  IF r.status = "ok" THEN r
        ELSE [r EXCEPT !.status = row[1], !.error_model = Some(1)]

OpenRouterClient_invoke(row) == InvokeFrom(row, 1, <<>>, None)

\* call_llm_with_retry(client = OpenRouterClient): attempt i of the wrapper is
\* one OpenRouterClient.invoke, which goes through the model list matrix[i].
\* model_calls lists every _call_model call of the whole call, in order.
RECURSIVE ModelCalls(_, _, _)
ModelCalls(matrix, attempts, i) ==
    IF i > attempts THEN <<>>
    ELSE [k \in 1..Len(OpenRouterClient_invoke(matrix[i]).called) |->
             [attempt |-> i, model |-> OpenRouterClient_invoke(matrix[i]).called[k]]]
         \o ModelCalls(matrix, attempts, i + 1)

call_llm_with_retry_OpenRouterClient(matrix, max_retries) ==
    LET script == [i \in DOMAIN matrix |-> OpenRouterClient_invoke(matrix[i]).status]
        call == call_llm_with_retry(script, max_retries)
    IN  [status |-> call.status, attempts |-> call.attempts,
         events |-> call.events,
         model_calls |-> ModelCalls(matrix, call.attempts, 1)]

\* ---------------------------------------------------------------- structuring
\* A structuring response is described by what parse_llm_response and
\* PRD_Draft's validators read from it.
TitleSamples == {[raw |-> 10, stripped |-> 5], [raw |-> 20, stripped |-> 20],
                 [raw |-> 201, stripped |-> 201]}
StructuringResponses ==
    [json : BOOLEAN, title : TitleSamples, title_verb : BOOLEAN,
     story_len : {30}, story_format : {TRUE}, ac_count : 0..MaxAC]

\* PRD_Draft.model_validate: the field constraints and the three validators
PRD_Draft_valid(d) ==
    /\ d.title.raw >= MIN_TITLE_LENGTH /\ d.title.raw <= MAX_TITLE_LENGTH
    /\ d.title_verb
    /\ d.story_len >= MIN_USER_STORY_LENGTH /\ d.story_format
    /\ d.ac_count >= 1

PRD_Draft(d) == [title_len |-> d.title.stripped, title_verb |-> d.title_verb,
                 user_story_len |-> d.story_len, ac_count |-> d.ac_count]

\* parse_llm_response: the draft, or the StructuringFailureError it raises
parse_llm_response(resp) ==
    IF ~resp.json
    THEN [exc |-> Some("StructuringFailureError"),
          error |-> "Failed to parse JSON from LLM response", prd |-> None]
    ELSE IF ~PRD_Draft_valid(resp)
    THEN [exc |-> Some("StructuringFailureError"),
          error |-> "LLM output failed schema validation", prd |-> None]
    ELSE [exc |-> None, error |-> "", prd |-> Some(PRD_Draft(resp))]

\* what the structuring stage meets: a constructor that fails, or a gateway
\* script with the response the gateway returns when it answers (no response
\* is read when the call fails)
AllOk == [i \in 1..(DefaultMaxRetries + 1) |-> "ok"]
AnswerSample == CHOOSE r \in StructuringResponses : TRUE
StructuringInputs ==
    [init_fails : {FALSE},
     script : {sc \in GatewayScripts :
                  call_llm_with_retry(sc, DefaultMaxRetries).status = "ok"},
     resp : StructuringResponses]
    \cup [init_fails : {FALSE},
          script : {sc \in GatewayScripts :
                       call_llm_with_retry(sc, DefaultMaxRetries).status # "ok"},
          resp : {AnswerSample}]
    \cup [init_fails : {TRUE}, script : {AllOk}, resp : {AnswerSample}]

\* StructuringAgent() and StructuringAgent.structure: the constructor may fail
\* reading the prompt template; structure makes one LLMClientWithRetry.generate
\* call (default max_retries), wraps its failure, then parses the response
StructuringAgent_structure(init_fails, script, resp) ==
    LET call == call_llm_with_retry(script, DefaultMaxRetries)
    IN  IF init_fails
        THEN [exc |-> Some("OSError"), error |-> "", prd |-> None, attempts |-> 0]
        ELSE IF call.status # "ok"
        THEN [exc |-> Some(IF isinstance(call.status, "Exception")
                           THEN "StructuringFailureError" ELSE call.status),
              error |-> "LLM call failed", prd |-> None, attempts |-> call.attempts]
        ELSE [exc |-> parse_llm_response(resp).exc,
              error |-> parse_llm_response(resp).error,
              prd |-> parse_llm_response(resp).prd,
              attempts |-> call.attempts]

\* ---------------------------------------------------------------- structure check
\* the checks stopping at the first failure
structure_errors_of_first_only(prd) ==
    IF prd.ac_count < MIN_AC_COUNT
    THEN <<"Insufficient acceptance criteria">>
    ELSE IF prd.user_story_len < MIN_USER_STORY_LENGTH
    THEN <<"User story too short">>
    ELSE IF prd.title_len < MIN_TITLE_LENGTH THEN <<"Title too short">>
    ELSE IF prd.title_len > MAX_TITLE_LENGTH THEN <<"Title too long">>
    ELSE IF ~prd.title_verb
    THEN <<"Title should start with an action verb">> ELSE <<>>

\* the four checks of hard_check_structure_node, none short-circuiting
structure_errors_of(prd) ==
    (IF prd.ac_count < MIN_AC_COUNT
        THEN <<"Insufficient acceptance criteria">> ELSE <<>>)
    \o (IF prd.user_story_len < MIN_USER_STORY_LENGTH
        THEN <<"User story too short">> ELSE <<>>)
    \o (IF prd.title_len < MIN_TITLE_LENGTH THEN <<"Title too short">>
        ELSE IF prd.title_len > MAX_TITLE_LENGTH THEN <<"Title too long">>
        ELSE <<>>)
    \o (IF ~prd.title_verb
        THEN <<"Title should start with an action verb">> ELSE <<>>)

\* ---------------------------------------------------------------- scoring
ScoreSamples == {0, 3, 5, 49, 50, 54, 55, 59, 60, 64, 65, 100}
ScoringResponses ==
    [json : BOOLEAN, total_score : ScoreSamples \cup {ScoreMin - 1, ScoreMax + 1},
     blocking_issues : 0..MaxBlockers]

\* what the scoring stage meets: the gateway's answer, or its failure
ScoringInputs ==
    [outcome : {"ok"}, resp : ScoringResponses]
    \cup [outcome : GatewayOutcomes \ {"ok"},
          resp : {CHOOSE r \in ScoringResponses : TRUE}]

\* TicketScoreReport.model_validate_json: total_score must lie in 0..100
TicketScoreReport_valid(resp) ==
    resp.json /\ resp.total_score >= ScoreMin /\ resp.total_score <= ScoreMax

TicketScoreReport(resp) ==
    [total_score |-> resp.total_score, blocking_issues |-> resp.blocking_issues]

\* ScoringAgent.score: rubric lookup, one LLMClient.invoke, validation
ScoringAgent_score(rub, ticket_type, outcome, resp) ==
    IF ~get_scenario_config(rub, ticket_type).ok
    THEN [exc |-> Some("FileNotFoundError"), msg |-> "Rubric file not found",
          calls |-> 0, report |-> None]
    ELSE IF outcome # "ok"
    THEN [exc |-> Some(GatewayError(outcome)), msg |-> GatewayMessage(outcome),
          calls |-> 1, report |-> None]
    ELSE IF ~TicketScoreReport_valid(resp)
    THEN [exc |-> Some("ValidationError"),
          msg |-> "validation error for TicketScoreReport",
          calls |-> 1, report |-> None]
    ELSE [exc |-> None, msg |-> "", calls |-> 1,
          report |-> Some(TicketScoreReport(resp))]

\* RequirementPacket's field values
SourceTypes == {"Jira_Ticket", "PRD_Doc", "Meeting_Transcript"}
Priorities == {"P0", "P1", "P2"}
AttachmentLists ==
    UNION {[1..n -> {"https://example.com/doc.pdf"}] : n \in 0..MaxAttachments}

\* str.strip, on a text described by where it comes from and whether
\* whitespace surrounds it
strip(text) == [text EXCEPT !.ws = FALSE]

\* RequirementPacket(...): the raw_text validator returns the stripped text
RequirementPacket(raw_text, source_type, project_key, priority, ticket_type, attachments) ==
    [raw_text |-> strip(raw_text), source_type |-> source_type,
     project_key |-> project_key, priority |-> priority,
     ticket_type |-> ticket_type, attachments |-> attachments]

\* format_prd_for_scoring: the draft's sections joined by newlines; the text
\* ends with the last list item, whitespace included
format_prd_for_scoring(prd) ==
    [text |-> "rendered", prd |-> Some(prd.draft), ws |-> prd.last_item_ws]

\* _prepare_scoring_input: the packet itself without draft, otherwise a new
\* packet built from five of its fields (attachments takes its default)
_prepare_scoring_input(packet, structured_prd) ==
    IF structured_prd = None THEN packet
    ELSE RequirementPacket(format_prd_for_scoring(Val(structured_prd)),
                           packet.source_type, packet.project_key,
                           packet.priority, packet.ticket_type, <<>>)

\* the penalty without the floor at zero
apply_fallback_penalty_unclamped(fallback_activated, total_score) ==
    IF fallback_activated THEN total_score - FallbackPenalty ELSE total_score

\* the penalty left out
apply_fallback_penalty_skipped(fallback_activated, total_score) == total_score

\* the fallback penalty of scoring_node
apply_fallback_penalty(fallback_activated, total_score) ==
    IF fallback_activated THEN Max(0, total_score - FallbackPenalty)
    ELSE total_score

\* ---------------------------------------------------------------- routing
\* routing that never takes the fallback branch
should_fallback_never(st) == "structure_check"

\* routing with the two labels exchanged
should_fallback_inverted(st) ==
    IF st.structured_prd # None THEN "fallback_scoring" ELSE "structure_check"

\* routing that stays on the fallback branch once the flag is set
should_fallback_sticky(st) ==
    IF st.structured_prd # None /\ ~st.fallback_activated
    THEN "structure_check" ELSE "fallback_scoring"

should_fallback(st) ==
    IF st.structured_prd # None THEN "structure_check" ELSE "fallback_scoring"

\* create_workflow: the nodes, entry point, static edges and the conditional
\* edge out of "structuring" that the configuration selects. With
\* enable_fallback and without enable_structuring the "fallback" node is added
\* with no edge to or from it; the graph still compiles
\* (tests/test_workflow_integration.py, test_workflow_compiles_with_mixed_options)
\* and no run enters the node.
create_workflow(c) ==
    [nodes |-> (IF c.enable_guardrail THEN {"guardrail"} ELSE {})
               \cup (IF c.enable_structuring
                     THEN {"structuring", "structure_check"} ELSE {})
               \cup {"scoring", "gate"}
               \cup (IF c.enable_fallback THEN {"fallback"} ELSE {}),
     entry |-> IF c.enable_guardrail THEN "guardrail"
               ELSE IF c.enable_structuring THEN "structuring"
               ELSE "scoring",
     edges |-> (IF c.enable_guardrail /\ c.enable_structuring
                THEN {<<"guardrail", "structuring">>} ELSE {})
               \cup (IF c.enable_guardrail /\ ~c.enable_structuring
                     THEN {<<"guardrail", "scoring">>} ELSE {})
               \cup (IF c.enable_structuring /\ c.enable_fallback
                     THEN {<<"structure_check", "scoring">>, <<"fallback", "scoring">>}
                     ELSE {})
               \cup (IF c.enable_structuring /\ ~c.enable_fallback
                     THEN {<<"structuring", "structure_check">>,
                           <<"structure_check", "scoring">>}
                     ELSE {})
               \cup {<<"scoring", "gate">>, <<"gate", "END">>},
     conditional |-> IF c.enable_structuring /\ c.enable_fallback
                     THEN {"structuring"} ELSE {}]

\* the mapping given to add_conditional_edges
BranchTarget(label) == IF label = "structure_check" THEN "structure_check"
                       ELSE "fallback"

\* the graph with the fallback node wired to the structure check
NextNode_fallback_to_check(g, n, st) ==
    IF n = "fallback" THEN "structure_check"
    ELSE IF n \in g.conditional THEN BranchTarget(should_fallback(st))
    ELSE CHOOSE m \in g.nodes \cup {"END"} : <<n, m>> \in g.edges

\* the node the compiled graph runs after node n returned state st
NextNode(g, n, st) ==
    IF n \in g.conditional THEN BranchTarget(should_fallback(st))
    ELSE CHOOSE m \in g.nodes \cup {"END"} : <<n, m>> \in g.edges

\* ---------------------------------------------------------------- run_workflow
create_initial_state(packet) ==
    [packet |-> packet, structured_prd |-> None, score_report |-> None,
     gate_decision |-> None, retry_count |-> 0, error_logs |-> <<>>,
     current_stage |-> "init", fallback_activated |-> FALSE,
     execution_times |-> {}, structure_check_passed |-> None,
     structure_errors |-> <<>>]

Packets == [raw_text : Texts, ticket_type : TicketTypes]
\* WorkflowConfig: the three toggles, the strictness mode and the retry count
\* (0..10 in the class; its default and the counts up to MaxConfigRetries here)
WorkflowConfigs == [enable_guardrail : BOOLEAN, enable_structuring : BOOLEAN,
                    enable_fallback : BOOLEAN,
                    guardrail_mode : {"strict", "lenient"},
                    max_retries : (0..MaxConfigRetries) \cup {DefaultMaxRetries}]

\* WorkflowConfig(...) with guardrail_mode and max_retries left to their defaults
WorkflowConfig(enable_guardrail, enable_structuring, enable_fallback) ==
    [enable_guardrail |-> enable_guardrail,
     enable_structuring |-> enable_structuring,
     enable_fallback |-> enable_fallback,
     guardrail_mode |-> "lenient", max_retries |-> DefaultMaxRetries]

NoCalls == [structuring |-> 0, scoring |-> 0]
NoUnit == [fn |-> "none"]

\* one run_workflow call in the process: no client constructed for it, no
\* other thread
NoThreads ==
    /\ _llm_client = None
    /\ constructed = 0
    /\ threads = <<>>
    /\ heap = <<>>

\* Without the guardrail node nothing reads the text's length, PII or
\* phrases, so those runs start from one plain text.
PlainText == [len |-> DefaultMinLength, pii |-> {}, inj |-> {}]

Init ==
    /\ \E g, s, f \in BOOLEAN : config = WorkflowConfig(g, s, f)
    /\ rubric \in RubricStates
    /\ \E packet \in Packets :
         /\ config.enable_guardrail \/ packet.raw_text = PlainText
         /\ state = create_initial_state(packet)
    /\ pc = "START"
    /\ raised = None
    /\ trace = <<>>
    /\ llm_calls = NoCalls
    /\ pre_penalty = None
    /\ guard_passed = None
    /\ unit = NoUnit
    /\ NoThreads

\* run_workflow wrapping every exception
run_workflow_except_wrap_all(exc) ==
    [exc EXCEPT !.type = "WorkflowExecutionError", !.stage = "workflow",
                !.cause = Some(exc.type)]

\* run_workflow letting every exception through as it is
run_workflow_except_reraise_all(exc) == exc

\* the except clauses of run_workflow: a guardrail rejection is re-raised as
\* it is, anything else is wrapped (raise WorkflowExecutionError ... from e)
run_workflow_except(exc) ==
    IF isinstance(exc.type, "GuardrailRejectionError") THEN exc
    ELSE [exc EXCEPT !.type = "WorkflowExecutionError", !.stage = "workflow",
                     !.cause = Some(exc.type)]

\* workflow.invoke(state): the graph starts at its entry point
workflow_invoke ==
    /\ pc = "START"
    /\ pc' = create_workflow(config).entry
    /\ UNCHANGED <<config, rubric, state, raised, trace, llm_calls, pre_penalty,
                   guard_passed, unit,
                   conc_vars>>

\* the body of input_guardrail_node once get_guardrail() has returned a
\* guardrail with configuration gc: validate(raw_text) is called without a
\* mode; a failed result raises the rejection, a passed one returns the state
\* with the stage marker and the time (the packet, and so the text, as it was)
input_guardrail(st, gc) ==
    LET result == validate(st.packet.raw_text, None, gc)
    IN  IF ~result.passed
        THEN [result |-> result, state |-> st,
              exc |-> Some([type |-> "GuardrailRejectionError",
                            stage |-> "guardrail",
                            rejection_reason |-> rejection_reason(result),
                            errors |-> result.errors,
                            pii_detected |-> result.pii_detected,
                            injection_detected |-> result.injection_detected,
                            cause |-> None])]
        ELSE [result |-> result, exc |-> None,
              state |-> [st EXCEPT !.current_stage = "guardrail_passed",
                                   !.execution_times = @ \cup {"guardrail"}]]

\* The node has no try block: get_guardrail() failing on the config file
\* leaves the node as it is raised, and so does the rejection.
input_guardrail_node ==
    /\ pc = "guardrail"
    /\ \/ \E cls \in GuardrailConfigErrors :
            /\ raised' = Some(run_workflow_except(Exc(cls, "")))
            /\ pc' = "raised"
            /\ UNCHANGED <<state, guard_passed>>
       \/ \E gc \in GuardrailConfigs :
         LET r == input_guardrail(state, gc)
         IN  /\ guard_passed' = Some(r.result.passed)
             /\ state' = r.state
             /\ IF r.exc # None
                THEN /\ raised' = Some(run_workflow_except(Val(r.exc)))
                     /\ pc' = "raised"
                ELSE /\ pc' = NextNode(create_workflow(config), "guardrail", state')
                     /\ raised' = raised
    /\ trace' = Append(trace, "guardrail")
    /\ UNCHANGED <<config, rubric, llm_calls, pre_penalty, unit,
                   conc_vars>>

\* the failure return without the stage marker
structuring_failure_keep_stage(st, entry) ==
    [st EXCEPT !.structured_prd = None,
               !.error_logs = Append(@, entry),
               !.execution_times = @ \cup {"structuring"}]

\* the dict both except clauses of structuring_agent_node return: the state
\* with the draft null, the failure stage, the entry appended to the copied
\* log and the stage's time
structuring_failure(st, entry) ==
    [st EXCEPT !.structured_prd = None,
               !.current_stage = "structuring_failed",
               !.error_logs = Append(@, entry),
               !.execution_times = @ \cup {"structuring"}]

structuring_agent_node ==
    /\ pc = "structuring"
    /\ \E in \in StructuringInputs :
         LET r == StructuringAgent_structure(in.init_fails, in.script, in.resp)
         IN  /\ llm_calls' = [llm_calls EXCEPT !.structuring = @ + r.attempts]
             /\ IF r.exc = None
                THEN /\ state' = [state EXCEPT
                           !.structured_prd = r.prd,
                           !.current_stage = "structuring_complete",
                           !.execution_times = @ \cup {"structuring"}]
                     /\ pc' = NextNode(create_workflow(config), "structuring", state')
                     /\ raised' = raised
                ELSE IF isinstance(Val(r.exc), "StructuringFailureError")
                THEN /\ state' = structuring_failure(state, "Structuring: " \o r.error)
                     /\ pc' = NextNode(create_workflow(config), "structuring", state')
                     /\ raised' = raised
                ELSE IF isinstance(Val(r.exc), "Exception")
                THEN /\ state' = structuring_failure(state, "Structuring unexpected error")
                     /\ pc' = NextNode(create_workflow(config), "structuring", state')
                     /\ raised' = raised
                ELSE /\ state' = state
                     /\ pc' = "raised"
                     /\ raised' = Some(run_workflow_except(Exc(Val(r.exc), "structuring")))
    /\ trace' = Append(trace, "structuring")
    /\ UNCHANGED <<config, rubric, pre_penalty, guard_passed, unit,
                   conc_vars>>

\* the check taking a missing draft for a pass
hard_check_structure_skip_as_pass(st) ==
    IF st.structured_prd = None
    THEN [st EXCEPT !.current_stage = "structure_check",
                    !.structure_check_passed = Some(TRUE),
                    !.structure_errors = <<>>,
                    !.execution_times = @ \cup {"structure_check"}]
    ELSE LET errors == structure_errors_of(Val(st.structured_prd))
         IN  [st EXCEPT !.current_stage = "structure_check",
                        !.structure_check_passed = Some(errors = <<>>),
                        !.structure_errors = errors,
                        !.execution_times = @ \cup {"structure_check"}]

\* the check never recording its time
hard_check_structure_untimed(st) ==
    IF st.structured_prd = None
    THEN [st EXCEPT !.current_stage = "structure_check",
                    !.structure_check_passed = None,
                    !.structure_errors = <<>>]
    ELSE LET errors == structure_errors_of(Val(st.structured_prd))
         IN  [st EXCEPT !.current_stage = "structure_check",
                        !.structure_check_passed = Some(errors = <<>>),
                        !.structure_errors = errors]

\* the body of hard_check_structure_node: the early return when there is no
\* draft, the four checks otherwise; both record the stage's time
hard_check_structure(st) ==
    IF st.structured_prd = None
    THEN [st EXCEPT !.current_stage = "structure_check",
                    !.structure_check_passed = None,
                    !.structure_errors = <<>>,
                    !.execution_times = @ \cup {"structure_check"}]
    ELSE LET errors == structure_errors_of(Val(st.structured_prd))
         IN  [st EXCEPT !.current_stage = "structure_check",
                        !.structure_check_passed = Some(errors = <<>>),
                        !.structure_errors = errors,
                        !.execution_times = @ \cup {"structure_check"}]

hard_check_structure_node ==
    /\ pc = "structure_check"
    /\ state' = hard_check_structure(state)
    /\ pc' = NextNode(create_workflow(config), "structure_check", state')
    /\ trace' = Append(trace, "structure_check")
    /\ UNCHANGED <<config, rubric, raised, llm_calls, pre_penalty, guard_passed, unit,
                   conc_vars>>

\* the fallback node also moving the stage marker
\* the fallback raising its flag without a log entry
fallback_state_silent(st) == [st EXCEPT !.fallback_activated = TRUE]

fallback_state_restaged(st) ==
    [st EXCEPT !.fallback_activated = TRUE,
               !.current_stage = "fallback",
               !.error_logs = Append(@, "Fallback activated: scoring will use raw text")]

\* the two assignments of activate_fallback
fallback_state(st) ==
    [st EXCEPT !.fallback_activated = TRUE,
               !.error_logs = Append(@, "Fallback activated: scoring will use raw text")]

activate_fallback ==
    /\ pc = "fallback"
    /\ state' = fallback_state(state)
    /\ pc' = NextNode(create_workflow(config), "fallback", state')
    /\ trace' = Append(trace, "fallback")
    /\ UNCHANGED <<config, rubric, raised, llm_calls, pre_penalty, guard_passed, unit,
                   conc_vars>>

\* the except clause logging nothing
scoring_node_except_silent(st, msg) ==
    [st EXCEPT !.current_stage = "scoring",
               !.execution_times = @ \cup {"scoring"}]

\* the except clause replacing the log by its entry
scoring_node_except_overwrite(st, msg) ==
    [st EXCEPT !.current_stage = "scoring",
               !.error_logs = <<"Scoring failed: " \o msg>>,
               !.execution_times = @ \cup {"scoring"}]

\* scoring_node when the try block raised: the stage marker set before the
\* try, the entry appended by the except clause, the time recorded by finally
scoring_node_except(st, msg) ==
    [st EXCEPT !.current_stage = "scoring",
               !.error_logs = Append(@, "Scoring failed: " \o msg),
               !.execution_times = @ \cup {"scoring"}]

scoring_node ==
    /\ pc = "scoring"
    /\ \E in \in ScoringInputs :
         LET r == ScoringAgent_score(rubric, state.packet.ticket_type,
                                     in.outcome, in.resp)
         IN  /\ llm_calls' = [llm_calls EXCEPT !.scoring = @ + r.calls]
             /\ IF r.exc = None
                THEN /\ state' = [state EXCEPT
                           !.current_stage = "scoring",
                           !.score_report = Some([Val(r.report) EXCEPT
                               !.total_score = apply_fallback_penalty(
                                                   state.fallback_activated, @)]),
                           !.execution_times = @ \cup {"scoring"}]
                     /\ pre_penalty' = Some(Val(r.report).total_score)
                     /\ pc' = NextNode(create_workflow(config), "scoring", state')
                     /\ raised' = raised
                ELSE IF isinstance(Val(r.exc), "Exception")
                THEN /\ state' = scoring_node_except(state, r.msg)
                     /\ pre_penalty' = pre_penalty
                     /\ pc' = NextNode(create_workflow(config), "scoring", state')
                     /\ raised' = raised
                ELSE /\ state' = [state EXCEPT
                           !.current_stage = "scoring",
                           !.execution_times = @ \cup {"scoring"}]
                     /\ pre_penalty' = pre_penalty
                     /\ pc' = "raised"
                     /\ raised' = Some(run_workflow_except(Exc(Val(r.exc), "scoring")))
    /\ trace' = Append(trace, "scoring")
    /\ UNCHANGED <<config, rubric, guard_passed, unit,
                   conc_vars>>

\* the gate rejecting every ticket whose structure check failed
gate_outcome_checks_structure(st, rub) ==
    IF st.score_report = None
    THEN [decision |-> Some(FALSE), exc |-> None,
          log |-> <<"Gate decision: REJECT (no score report)">>]
    ELSE LET d == HardGate_decide(Val(st.score_report), st.packet.ticket_type, rub)
         IN  IF d # "raise"
             THEN [decision |-> Some(d = "PASS"
                                     /\ st.structure_check_passed # Some(FALSE)),
                   exc |-> None, log |-> <<>>]
             ELSE [decision |-> Some(FALSE), exc |-> None,
                   log |-> <<"Gate decision failed">>]

\* the gate with an except clause that does not store a decision
gate_outcome_except_unset(st, rub) ==
    IF st.score_report = None
    THEN [decision |-> Some(FALSE), exc |-> None,
          log |-> <<"Gate decision: REJECT (no score report)">>]
    ELSE LET d == HardGate_decide(Val(st.score_report), st.packet.ticket_type, rub)
         IN  IF d # "raise"
             THEN [decision |-> Some(d = "PASS"), exc |-> None, log |-> <<>>]
             ELSE [decision |-> st.gate_decision, exc |-> None,
                   log |-> <<"Gate decision failed">>]

\* the gate doing nothing when there is no report
gate_outcome_skip_null(st, rub) ==
    IF st.score_report = None
    THEN [decision |-> st.gate_decision, exc |-> None, log |-> <<>>]
    ELSE LET d == HardGate_decide(Val(st.score_report), st.packet.ticket_type, rub)
         IN  IF d # "raise"
             THEN [decision |-> Some(d = "PASS"), exc |-> None, log |-> <<>>]
             ELSE [decision |-> Some(FALSE), exc |-> None,
                   log |-> <<"Gate decision failed">>]

\* the body of hard_gate_node's try block and its except clause: the decision
\* stored, the entry logged (if any), and the exception that escapes (if any)
gate_outcome(st, rub) ==
    IF st.score_report = None
    THEN [decision |-> Some(FALSE), exc |-> None,
          log |-> <<"Gate decision: REJECT (no score report)">>]
    ELSE LET d == HardGate_decide(Val(st.score_report), st.packet.ticket_type, rub)
             cls == IF rub = "missing" THEN "FileNotFoundError" ELSE "TypeError"
         IN  IF d # "raise"
             THEN [decision |-> Some(d = "PASS"), exc |-> None, log |-> <<>>]
             ELSE IF isinstance(cls, "Exception")
             THEN [decision |-> Some(FALSE), exc |-> None,
                   log |-> <<"Gate decision failed">>]
             ELSE [decision |-> st.gate_decision, exc |-> Some(cls), log |-> <<>>]

hard_gate_node ==
    /\ pc = "gate"
    /\ state' = [state EXCEPT
                    !.current_stage = "gate",
                    !.gate_decision = gate_outcome(state, rubric).decision,
                    !.error_logs = @ \o gate_outcome(state, rubric).log,
                    !.execution_times = @ \cup {"gate"}]
    /\ IF gate_outcome(state, rubric).exc = None
       THEN /\ pc' = NextNode(create_workflow(config), "gate", state')
            /\ raised' = raised
       ELSE /\ pc' = "raised"
            /\ raised' = Some(run_workflow_except(
                                  Exc(Val(gate_outcome(state, rubric).exc), "gate")))
    /\ trace' = Append(trace, "gate")
    /\ UNCHANGED <<config, rubric, llm_calls, pre_penalty, guard_passed, unit,
                   conc_vars>>

\* workflow.invoke returns and run_workflow returns final_state
workflow_return ==
    /\ pc = "END"
    /\ pc' = "returned"
    /\ UNCHANGED <<config, rubric, state, raised, trace, llm_calls, pre_penalty,
                   guard_passed, unit,
                   conc_vars>>

Next ==
    \/ workflow_invoke
    \/ input_guardrail_node
    \/ structuring_agent_node
    \/ hard_check_structure_node
    \/ activate_fallback
    \/ scoring_node
    \/ hard_gate_node
    \/ workflow_return

Spec == Init /\ [][Next]_vars

\* The run is one sequential thread: a stage that can run does run.
SpecLive == Spec /\ WF_vars(Next)

\* Runs under every WorkflowConfig, the strictness mode and the retry count
\* included, for Feature packets and a loadable rubric.
InitConfigured ==
    /\ config \in WorkflowConfigs
    /\ rubric = "valid"
    /\ \E packet \in Packets :
         /\ packet.ticket_type = "Feature"
         /\ config.enable_guardrail \/ packet.raw_text = PlainText
         /\ state = create_initial_state(packet)
    /\ pc = "START"
    /\ raised = None
    /\ trace = <<>>
    /\ llm_calls = NoCalls
    /\ pre_penalty = None
    /\ guard_passed = None
    /\ unit = NoUnit
    /\ NoThreads

SpecConfigured == InitConfigured /\ [][Next]_vars

\* ---------------------------------------------------------------- pure functions
\* HardGate.decide applied to every report, ticket type and rubric condition
Reports == [total_score : ScoreMin..ScoreMax, blocking_issues : 0..MaxBlockers]

\* states should_fallback may be handed: with and without a draft, whatever
\* the other fields hold
RoutingStates ==
    {[create_initial_state([raw_text |-> PlainText, ticket_type |-> tt])
         EXCEPT !.structured_prd = prd, !.fallback_activated = fa,
                !.current_stage = cs, !.error_logs = logs] :
        tt \in TicketTypes,
        prd \in {None} \cup {Some(PRD_Draft(r)) :
                                 r \in {x \in StructuringResponses : PRD_Draft_valid(x)}},
        fa \in BOOLEAN,
        cs \in {"structuring_complete", "structuring_failed"},
        logs \in {<<>>, <<"Structuring: LLM call failed">>}}

\* a call that has not returned or raised yet
Pending == [status |-> "pending"]

\* call_llm_with_retry applied to every gateway behaviour over the attempts a
\* retry budget of up to MaxUnitRetries allows
UnitScripts == [1..(MaxUnitRetries + 1) -> GatewayOutcomes]

\* what each model of a preference list of 1..MaxModels models does when called
ModelRows == UNION {[1..n -> GatewayOutcomes] : n \in 1..MaxModels}

\* the same for each attempt of a retried call over one preference list
ModelMatrices ==
    UNION {[1..(MaxLayeredRetries + 1) -> [1..n -> GatewayOutcomes]] :
              n \in 1..MaxModels}

\* drafts hard_check_structure_node may be handed: the node reads the number
\* of criteria, the stripped lengths of story and title and the title's first
\* word; an empty title has no first word, so no verb
CheckDrafts ==
    {p \in [title_len : {0, MIN_TITLE_LENGTH - 1, MIN_TITLE_LENGTH,
                         MAX_TITLE_LENGTH, MAX_TITLE_LENGTH + 1},
            title_verb : BOOLEAN,
            user_story_len : {MIN_USER_STORY_LENGTH - 1, MIN_USER_STORY_LENGTH},
            ac_count : 0..MaxAC] :
        p.title_len = 0 => ~p.title_verb}

CheckStates ==
    {[create_initial_state([raw_text |-> PlainText, ticket_type |-> tt])
         EXCEPT !.structured_prd = Some(prd),
                !.current_stage = "structuring_complete",
                !.execution_times = {"structuring"}] :
        tt \in TicketTypes, prd \in CheckDrafts}

\* packets with every field of RequirementPacket, as a caller constructs them
ScoringPackets ==
    {RequirementPacket([text |-> "original", prd |-> None, ws |-> ws],
                       source_type, "PAY", priority, ticket_type, attachments) :
        ws \in BOOLEAN, source_type \in SourceTypes, priority \in Priorities,
        ticket_type \in TicketTypes, attachments \in AttachmentLists}

\* validated drafts, with what format_prd_for_scoring reads beyond the checked
\* features: whether the last rendered item ends in whitespace
RenderDrafts ==
    {[draft |-> PRD_Draft(r), last_item_ws |-> b] :
        r \in {x \in StructuringResponses : PRD_Draft_valid(x)}, b \in BOOLEAN}

InitUnit ==
    /\ config = WorkflowConfig(FALSE, FALSE, FALSE)
    /\ rubric \in RubricStates
    /\ state = create_initial_state([raw_text |-> PlainText, ticket_type |-> "Feature"])
    /\ pc = "unit"
    /\ raised = None
    /\ trace = <<>>
    /\ llm_calls = NoCalls
    /\ pre_penalty = None
    /\ guard_passed = None
    /\ NoThreads
    /\ \/ \E report \in Reports, ticket_type \in TicketTypes :
            unit = [fn |-> "decide", report |-> report, ticket_type |-> ticket_type,
                    result |-> "pending"]
       \/ \E script \in UnitScripts, max_retries \in 0..MaxUnitRetries :
            unit = [fn |-> "call_llm_with_retry", script |-> script,
                    max_retries |-> max_retries, result |-> Pending]
       \/ \E st \in RoutingStates :
            unit = [fn |-> "should_fallback", st |-> st, result |-> Pending]
       \/ \E row \in ModelRows :
            unit = [fn |-> "OpenRouterClient_invoke", row |-> row, result |-> Pending]
       \/ \E st \in CheckStates :
            unit = [fn |-> "hard_check_structure", st |-> st, result |-> Pending]
       \/ \E text \in Texts, gc \in GuardrailConfigs,
             mode \in {None, Some("strict"), Some("lenient")} :
            unit = [fn |-> "validate", text |-> text, mode |-> mode, gc |-> gc,
                    result |-> Pending]
       \/ \E text \in Texts, gc \in GuardrailConfigs,
             guardrail_mode \in {"strict", "lenient"} :
            unit = [fn |-> "input_guardrail_node",
                    config |-> [WorkflowConfig(TRUE, TRUE, TRUE) EXCEPT
                                   !.guardrail_mode = guardrail_mode],
                    st |-> create_initial_state([raw_text |-> text,
                                                 ticket_type |-> "Feature"]),
                    gc |-> gc, result |-> Pending]
       \/ \E packet \in ScoringPackets,
             prd \in {None} \cup {Some(x) : x \in RenderDrafts} :
            unit = [fn |-> "_prepare_scoring_input", packet |-> packet,
                    structured_prd |-> prd, result |-> Pending]
       \/ \E matrix \in ModelMatrices, max_retries \in 0..MaxLayeredRetries :
            unit = [fn |-> "call_llm_with_retry_OpenRouterClient", matrix |-> matrix,
                    max_retries |-> max_retries, result |-> Pending]

unit_decide ==
    /\ pc = "unit"
    /\ unit.fn = "decide"
    /\ unit.result = "pending"
    /\ unit' = [unit EXCEPT
                   !.result = HardGate_decide(unit.report, unit.ticket_type, rubric)]
    /\ UNCHANGED <<config, rubric, state, pc, raised, trace, llm_calls, pre_penalty,
                   guard_passed,
                   conc_vars>>

unit_call_llm_with_retry ==
    /\ pc = "unit"
    /\ unit.fn = "call_llm_with_retry"
    /\ unit.result.status = "pending"
    /\ unit' = [unit EXCEPT
                   !.result = call_llm_with_retry(unit.script, unit.max_retries)]
    /\ UNCHANGED <<config, rubric, state, pc, raised, trace, llm_calls, pre_penalty,
                   guard_passed,
                   conc_vars>>

unit_OpenRouterClient_invoke ==
    /\ pc = "unit"
    /\ unit.fn = "OpenRouterClient_invoke"
    /\ unit.result.status = "pending"
    /\ unit' = [unit EXCEPT !.result = OpenRouterClient_invoke(unit.row)]
    /\ UNCHANGED <<config, rubric, state, pc, raised, trace, llm_calls, pre_penalty,
                   guard_passed,
                   conc_vars>>

unit_call_llm_with_retry_OpenRouterClient ==
    /\ pc = "unit"
    /\ unit.fn = "call_llm_with_retry_OpenRouterClient"
    /\ unit.result.status = "pending"
    /\ unit' = [unit EXCEPT
                   !.result = call_llm_with_retry_OpenRouterClient(
                                  unit.matrix, unit.max_retries)]
    /\ UNCHANGED <<config, rubric, state, pc, raised, trace, llm_calls, pre_penalty,
                   guard_passed,
                   conc_vars>>

unit_hard_check_structure ==
    /\ pc = "unit"
    /\ unit.fn = "hard_check_structure"
    /\ unit.result.status = "pending"
    /\ unit' = [unit EXCEPT !.result = [status |-> "returned",
                                        state |-> hard_check_structure(unit.st)]]
    /\ UNCHANGED <<config, rubric, state, pc, raised, trace, llm_calls, pre_penalty,
                   guard_passed,
                   conc_vars>>

unit_prepare_scoring_input ==
    /\ pc = "unit"
    /\ unit.fn = "_prepare_scoring_input"
    /\ unit.result.status = "pending"
    /\ unit' = [unit EXCEPT !.result =
                   [status |-> "returned",
                    packet |-> _prepare_scoring_input(unit.packet,
                                                      unit.structured_prd)]]
    /\ UNCHANGED <<config, rubric, state, pc, raised, trace, llm_calls, pre_penalty,
                   guard_passed,
                   conc_vars>>

unit_validate ==
    /\ pc = "unit"
    /\ unit.fn = "validate"
    /\ unit.result.status = "pending"
    /\ unit' = [unit EXCEPT !.result =
                   [status |-> "returned",
                    result |-> validate(unit.text, unit.mode, unit.gc)]]
    /\ UNCHANGED <<config, rubric, state, pc, raised, trace, llm_calls, pre_penalty,
                   guard_passed, conc_vars>>

\* run_workflow(packet, unit.config) up to the end of its guardrail node:
\* create_workflow reads the toggles of the configuration, and the node is
\* handed the state alone
unit_input_guardrail_node ==
    /\ pc = "unit"
    /\ unit.fn = "input_guardrail_node"
    /\ unit.result.status = "pending"
    /\ create_workflow(unit.config).entry = "guardrail"
    /\ unit' = [unit EXCEPT !.result =
                   [status |-> IF input_guardrail(unit.st, unit.gc).exc = None
                               THEN "returned" ELSE "raised",
                    validation |-> input_guardrail(unit.st, unit.gc).result,
                    exc |-> input_guardrail(unit.st, unit.gc).exc,
                    state |-> input_guardrail(unit.st, unit.gc).state]]
    /\ UNCHANGED <<config, rubric, state, pc, raised, trace, llm_calls, pre_penalty,
                   guard_passed, conc_vars>>

unit_should_fallback ==
    /\ pc = "unit"
    /\ unit.fn = "should_fallback"
    /\ unit.result.status = "pending"
    /\ unit' = [unit EXCEPT !.result = [status |-> "returned",
                                        label |-> should_fallback(unit.st)]]
    /\ UNCHANGED <<config, rubric, state, pc, raised, trace, llm_calls, pre_penalty,
                   guard_passed,
                   conc_vars>>

NextUnit ==
    \/ unit_decide
    \/ unit_should_fallback
    \/ unit_call_llm_with_retry
    \/ unit_OpenRouterClient_invoke
    \/ unit_call_llm_with_retry_OpenRouterClient
    \/ unit_hard_check_structure
    \/ unit_prepare_scoring_input
    \/ unit_validate
    \/ unit_input_guardrail_node

SpecUnit == InitUnit /\ [][NextUnit]_vars

\* ---------------------------------------------------------------- concurrent runs
\* Several threads of one process each execute run_workflow on their own
\* packet. A state dict holds references to its list and dict objects; the
\* objects live in heap. The steps of different threads interleave; within a
\* thread, a step is one node body, or one of the three steps of
\* get_llm_client (test of the global, construction and store, return).
Threads == 1..MaxThreads

ConcConfig == WorkflowConfig(FALSE, TRUE, TRUE)
ConcPacket == [raw_text |-> PlainText, ticket_type |-> "Feature"]
ConcDraft == PRD_Draft(CHOOSE r \in StructuringResponses : PRD_Draft_valid(r))
ConcReport == TicketScoreReport([json |-> TRUE, total_score |-> 65,
                                 blocking_issues |-> 0])

seq_vars == <<config, rubric, state, pc, raised, trace, llm_calls, pre_penalty,
              guard_passed, unit>>

\* the n-th object thread t allocates: an object no other allocation returns
Ref(t, n) == <<t, n>>

\* the containers of every state being one module-level list and dict
NewContainers_shared_default(t, n) ==
    [error_logs |-> Ref(0, 0), execution_times |-> Ref(0, 1),
     structure_errors |-> Ref(0, 2)]

\* the [] and {} literals of create_initial_state: three new objects per call
NewContainers(t, n) ==
    [error_logs |-> Ref(t, n), execution_times |-> Ref(t, n + 1),
     structure_errors |-> Ref(t, n + 2)]

\* a state dict with its containers read through their references
Deref(st) ==
    [st EXCEPT !.error_logs = heap[@], !.execution_times = heap[@],
               !.structure_errors = heap[@]]

\* the state dict of thread t as the thread reads it (None before it has one)
View(t) ==
    IF threads[t].state = None THEN None
    ELSE Some(Deref(Val(threads[t].state)))

\* a node mutating the dict st in place into the value new: the heap after it
Written(h, st, new) ==
    [h EXCEPT ![st.error_logs] = new.error_logs,
              ![st.execution_times] = new.execution_times,
              ![st.structure_errors] = new.structure_errors]

\* ... and the dict after it: the scalars of new, the container objects of st
Relinked(st, new) ==
    [new EXCEPT !.error_logs = st.error_logs,
                !.execution_times = st.execution_times,
                !.structure_errors = st.structure_errors]

\* a thread moving on to node n: the nodes that build an agent first obtain
\* the client (LLMClientWithRetry.__init__, ScoringAgent.__init__)
Enter(th, n) ==
    IF n \in {"structuring", "scoring"}
    THEN [th EXCEPT !.pc = "get_llm_client", !.ret = n]
    ELSE [th EXCEPT !.pc = n]

InitConc ==
    /\ config = ConcConfig
    /\ rubric = "valid"
    /\ state = create_initial_state(ConcPacket)
    /\ pc = "threads"
    /\ raised = None
    /\ trace = <<>>
    /\ llm_calls = NoCalls
    /\ pre_penalty = None
    /\ guard_passed = None
    /\ unit = NoUnit
    /\ _llm_client = None
    /\ constructed = 0
    /\ threads = [t \in Threads |->
                    [pc |-> "create_initial_state", ret |-> "", allocs |-> 0,
                     clients |-> {}, state |-> None]]
    /\ heap = [id \in {} |-> <<>>]

\* run_workflow up to workflow.invoke: the state dict is built
thread_create_initial_state ==
    \E t \in Threads :
        /\ threads[t].pc = "create_initial_state"
        /\ LET c == NewContainers(t, threads[t].allocs)
               v == create_initial_state(ConcPacket)
               new == {c.error_logs, c.execution_times, c.structure_errors}
           IN  /\ heap' = [id \in DOMAIN heap \cup new |->
                             IF id \in DOMAIN heap THEN heap[id]
                             ELSE IF id = c.execution_times THEN v.execution_times
                             ELSE IF id = c.error_logs THEN v.error_logs
                             ELSE v.structure_errors]
               /\ threads' = [threads EXCEPT ![t] =
                     Enter([@ EXCEPT !.allocs = @ + 3,
                                     !.state = Some(Relinked(c, v))],
                           create_workflow(config).entry)]
        /\ UNCHANGED <<seq_vars, _llm_client, constructed>>

\* get_llm_client: if _llm_client is None
thread_get_llm_client ==
    \E t \in Threads :
        /\ threads[t].pc = "get_llm_client"
        /\ threads' = [threads EXCEPT ![t].pc =
                          IF _llm_client = None THEN "OpenRouterClient"
                          ELSE "return _llm_client"]
        /\ UNCHANGED <<seq_vars, _llm_client, constructed, heap>>

\* get_llm_client: _llm_client = OpenRouterClient()
thread_OpenRouterClient ==
    \E t \in Threads :
        /\ threads[t].pc = "OpenRouterClient"
        /\ constructed' = constructed + 1
        /\ _llm_client' = Some(constructed + 1)
        /\ threads' = [threads EXCEPT ![t].pc = "return _llm_client"]
        /\ UNCHANGED <<seq_vars, heap>>

\* get_llm_client: return _llm_client
thread_return_llm_client ==
    \E t \in Threads :
        /\ threads[t].pc = "return _llm_client"
        /\ threads' = [threads EXCEPT
                          ![t].clients = @ \cup {Val(_llm_client)},
                          ![t].pc = threads[t].ret]
        /\ UNCHANGED <<seq_vars, _llm_client, constructed, heap>>

\* structuring_agent_node: copies of execution_times and error_logs are made,
\* and the dict returned refers to the copies it names
thread_structuring_agent_node ==
    \E t \in Threads, ok \in BOOLEAN :
        /\ threads[t].pc = "structuring"
        /\ LET th == threads[t]
               st == Val(th.state)
               v == Deref(st)
               times == Ref(t, th.allocs)
               logs == Ref(t, th.allocs + 1)
               new == IF ok
                      THEN [v EXCEPT !.structured_prd = Some(ConcDraft),
                                     !.current_stage = "structuring_complete",
                                     !.execution_times = @ \cup {"structuring"}]
                      ELSE structuring_failure(v, "Structuring: LLM call failed")
           IN  /\ heap' = [id \in DOMAIN heap \cup {times, logs} |->
                             IF id = times THEN new.execution_times
                             ELSE IF id = logs
                             THEN (IF ok THEN v.error_logs ELSE new.error_logs)
                             ELSE heap[id]]
               /\ threads' = [threads EXCEPT ![t] =
                     Enter([@ EXCEPT
                              !.allocs = @ + 2,
                              !.state = Some([Relinked(st, new) EXCEPT
                                  !.execution_times = times,
                                  !.error_logs = IF ok THEN @ ELSE logs])],
                           NextNode(create_workflow(config), "structuring", new))]
        /\ UNCHANGED <<seq_vars, _llm_client, constructed>>

\* hard_check_structure_node: the dict is mutated in place; structure_errors
\* is assigned a new list
thread_hard_check_structure_node ==
    \E t \in Threads :
        /\ threads[t].pc = "structure_check"
        /\ LET th == threads[t]
               st == Val(th.state)
               new == hard_check_structure(Deref(st))
               errors == Ref(t, th.allocs)
               st2 == [st EXCEPT !.structure_errors = errors]
           IN  /\ heap' = Written([id \in DOMAIN heap \cup {errors} |->
                                     IF id = errors THEN <<>> ELSE heap[id]],
                                  st2, new)
               /\ threads' = [threads EXCEPT ![t] =
                     Enter([@ EXCEPT !.allocs = @ + 1,
                                     !.state = Some(Relinked(st2, new))],
                           NextNode(create_workflow(config), "structure_check", new))]
        /\ UNCHANGED <<seq_vars, _llm_client, constructed>>

\* activate_fallback: in place
thread_activate_fallback ==
    \E t \in Threads :
        /\ threads[t].pc = "fallback"
        /\ LET st == Val(threads[t].state)
               new == fallback_state(Deref(st))
           IN  /\ heap' = Written(heap, st, new)
               /\ threads' = [threads EXCEPT ![t] =
                     Enter([@ EXCEPT !.state = Some(Relinked(st, new))],
                           NextNode(create_workflow(config), "fallback", new))]
        /\ UNCHANGED <<seq_vars, _llm_client, constructed>>

\* scoring_node: in place
thread_scoring_node ==
    \E t \in Threads, ok \in BOOLEAN :
        /\ threads[t].pc = "scoring"
        /\ LET st == Val(threads[t].state)
               v == Deref(st)
               new == IF ok
                      THEN [v EXCEPT
                              !.current_stage = "scoring",
                              !.score_report = Some([ConcReport EXCEPT
                                  !.total_score = apply_fallback_penalty(
                                                      v.fallback_activated, @)]),
                              !.execution_times = @ \cup {"scoring"}]
                      ELSE scoring_node_except(v, GatewayMessage("timeout"))
           IN  /\ heap' = Written(heap, st, new)
               /\ threads' = [threads EXCEPT ![t] =
                     Enter([@ EXCEPT !.state = Some(Relinked(st, new))],
                           NextNode(create_workflow(config), "scoring", new))]
        /\ UNCHANGED <<seq_vars, _llm_client, constructed>>

\* hard_gate_node: in place; the run ends
thread_hard_gate_node ==
    \E t \in Threads :
        /\ threads[t].pc = "gate"
        /\ LET st == Val(threads[t].state)
               v == Deref(st)
               new == [v EXCEPT
                          !.current_stage = "gate",
                          !.gate_decision = gate_outcome(v, rubric).decision,
                          !.error_logs = @ \o gate_outcome(v, rubric).log,
                          !.execution_times = @ \cup {"gate"}]
           IN  /\ heap' = Written(heap, st, new)
               /\ threads' = [threads EXCEPT ![t] =
                     Enter([@ EXCEPT !.state = Some(Relinked(st, new))],
                           NextNode(create_workflow(config), "gate", new))]
        /\ UNCHANGED <<seq_vars, _llm_client, constructed>>

NextConc ==
    \/ thread_create_initial_state
    \/ thread_get_llm_client
    \/ thread_OpenRouterClient
    \/ thread_return_llm_client
    \/ thread_structuring_agent_node
    \/ thread_hard_check_structure_node
    \/ thread_activate_fallback
    \/ thread_scoring_node
    \/ thread_hard_gate_node

SpecConc == InitConc /\ [][NextConc]_vars

\* ---------------------------------------------------------------- properties
InTrace(n) == \E i \in DOMAIN trace : trace[i] = n
Logged(msg) == \E i \in DOMAIN state.error_logs : state.error_logs[i] = msg
Threshold(ticket_type) == IF ticket_type = "Bug" THEN BugThreshold ELSE FeatureThreshold

\* C1: whenever run_workflow returns a terminal state, under any of the 8
\* configurations and whatever the LLM calls did, gate_decision is true or
\* false, never null.
C1_GateDecisionSet ==
    pc = "returned" => state.gate_decision \in {Some(TRUE), Some(FALSE)}

C1_Witness ==
    /\ pc = "returned"
    /\ config.enable_structuring
    /\ state.structured_prd = None
    /\ state.score_report = None
    /\ state.gate_decision = Some(FALSE)

\* C2: with the guardrail disabled, whatever fails inside structuring, scoring
\* or the gate, the run raises nothing, executes the gate stage and returns.
C2_ReachesGate ==
    (pc = "START" /\ ~config.enable_guardrail)
        ~> (pc = "returned" /\ raised = None /\ trace # <<>>
            /\ trace[Len(trace)] = "gate")

C2_Witness ==
    /\ pc = "returned"
    /\ ~config.enable_guardrail
    /\ raised = None
    /\ Logged("Structuring: LLM call failed")
    /\ Logged("Scoring failed: LLM request timeout")
    /\ InTrace("gate")

\* C3: the gate stage, run on a state without score report, stores the
\* decision false and raises nothing; no terminal state has a null score
\* report and a true decision.
C3_NullScoreRejects ==
    /\ [](pc = "returned" /\ state.score_report = None
              => state.gate_decision = Some(FALSE))
    /\ [][(pc = "gate" /\ state.score_report = None)
              => (state'.gate_decision = Some(FALSE) /\ raised' = None
                  /\ pc' = "END")]_vars

C3_Witness ==
    /\ state.current_stage = "gate"
    /\ state.score_report = None
    /\ state.gate_decision = Some(FALSE)
    /\ Logged("Gate decision: REJECT (no score report)")
    /\ raised = None

\* C4 as claimed: in every terminal state fallback_activated is true iff
\* structuring was enabled and structured_prd was null after structuring.
C4_Original ==
    pc = "returned" =>
        (state.fallback_activated
            <=> (config.enable_structuring /\ state.structured_prd = None))

\* C4 amended: in every terminal state fallback_activated is true iff
\* structuring and fallback were both enabled and structured_prd was null
\* after the structuring stage ran.
C4_FallbackIff ==
    pc = "returned" =>
        (state.fallback_activated
            <=> (config.enable_structuring /\ config.enable_fallback
                 /\ InTrace("structuring") /\ state.structured_prd = None))

C4_Witness ==
    /\ pc = "returned"
    /\ state.fallback_activated
    /\ state.structured_prd = None
    /\ InTrace("fallback")

\* C5: a report with total score s obtained by the scoring stage is stored
\* with score max(0, s - 5) when fallback_activated was true on entry and with
\* score s otherwise; scoring ran once, and the stored score is within 0..100.
C5_PenaltyOnce ==
    state.score_report # None =>
        /\ pre_penalty # None
        /\ Cardinality({i \in DOMAIN trace : trace[i] = "scoring"}) = 1
        /\ Val(state.score_report).total_score =
              (IF ~state.fallback_activated THEN Val(pre_penalty)
               ELSE IF Val(pre_penalty) >= FallbackPenalty
                    THEN Val(pre_penalty) - FallbackPenalty
                    ELSE 0)
        /\ Val(state.score_report).total_score \in ScoreMin..ScoreMax

C5_Witness ==
    /\ state.fallback_activated
    /\ pre_penalty = Some(3)
    /\ state.score_report # None
    /\ Val(state.score_report).total_score = 0

\* C6: in a fallback run whose report has no blocking issues and pre-penalty
\* score s, the gate decides on the penalised score: gate_decision is true iff
\* max(0, s - 5) >= threshold.
C6_GateAfterPenalty ==
    (/\ pc = "returned"
     /\ rubric = "valid"
     /\ state.fallback_activated
     /\ state.score_report # None
     /\ Val(state.score_report).blocking_issues = 0)
    => (state.gate_decision = Some(TRUE)
            <=> Max(0, Val(pre_penalty) - FallbackPenalty)
                    >= Threshold(state.packet.ticket_type))

C6_Witness ==
    /\ pc = "returned"
    /\ rubric = "valid"
    /\ state.fallback_activated
    /\ state.packet.ticket_type = "Feature"
    /\ pre_penalty = Some(FeatureThreshold + 4)
    /\ Val(state.score_report).blocking_issues = 0
    /\ state.gate_decision = Some(FALSE)

\* C7: for a report without blocking issues HardGate.decide returns PASS iff
\* total_score >= the threshold of the ticket's category (BUG for Bug, FEATURE
\* otherwise), so the threshold passes and threshold - 1 is rejected.
C7_ThresholdBoundary ==
    (/\ unit.fn = "decide"
     /\ unit.result # "pending"
     /\ rubric = "valid"
     /\ unit.report.blocking_issues = 0)
    => /\ unit.result \in {"PASS", "REJECT"}
       /\ unit.result = "PASS"
              <=> unit.report.total_score >= Threshold(unit.ticket_type)

C7_Witness ==
    /\ unit.fn = "decide"
    /\ rubric = "valid"
    /\ unit.ticket_type = "Bug"
    /\ unit.report = [total_score |-> BugThreshold, blocking_issues |-> 0]
    /\ unit.result = "PASS"

\* C8: HardGate.decide returns REJECT whenever the report has a blocking
\* issue, for every total_score in 0..100 and either ticket category.
C8_BlockersReject ==
    (/\ unit.fn = "decide"
     /\ unit.result # "pending"
     /\ rubric # "missing"
     /\ unit.report.blocking_issues > 0)
    => unit.result = "REJECT"

C8_Witness ==
    /\ unit.fn = "decide"
    /\ rubric = "valid"
    /\ unit.report.total_score = ScoreMax
    /\ unit.report.blocking_issues > 0
    /\ unit.result = "REJECT"

\* C9: when the guardrail stage fails the input, run_workflow raises the
\* GuardrailRejectionError itself (stage "guardrail", not wrapped), returns no
\* state, and no other stage has run and no LLM call has been made.
C9_GuardrailAborts ==
    guard_passed = Some(FALSE) =>
        /\ pc = "raised"
        /\ raised # None
        /\ Val(raised).type = "GuardrailRejectionError"
        /\ Val(raised).stage = "guardrail"
        /\ trace = <<"guardrail">>
        /\ llm_calls = NoCalls
        /\ state.structured_prd = None
        /\ state.score_report = None
        /\ state.gate_decision = None

C9_Witness ==
    /\ guard_passed = Some(FALSE)
    /\ pc = "raised"
    /\ config.enable_guardrail /\ config.enable_structuring
    /\ Val(raised).type = "GuardrailRejectionError"

\* C10: the rejection reason is too_short when a too-short error is among the
\* errors, whatever PII or phrases were detected; else too_long when a too-long
\* error is; without a length error it is pii_detected when PII was detected,
\* else prompt_injection when a phrase was, else validation_failed.
C10_ReasonPrecedence ==
    (guard_passed = Some(FALSE) /\ raised # None) =>
        LET r == Val(raised)
            short == ErrTooShort \in SeqToSet(r.errors)
            long == ErrTooLong \in SeqToSet(r.errors)
            pii == r.pii_detected # <<>>
            inj == r.injection_detected # <<>>
        IN  /\ short => r.rejection_reason = "too_short"
            /\ (~short /\ long) => r.rejection_reason = "too_long"
            /\ (~short /\ ~long /\ pii) => r.rejection_reason = "pii_detected"
            /\ (~short /\ ~long /\ ~pii /\ inj)
                   => r.rejection_reason = "prompt_injection"
            /\ (~short /\ ~long /\ ~pii /\ ~inj)
                   => r.rejection_reason = "validation_failed"

C10_Witness ==
    /\ guard_passed = Some(FALSE)
    /\ raised # None
    /\ Val(raised).rejection_reason = "too_short"
    /\ Val(raised).pii_detected # <<>>
    /\ Val(raised).injection_detected # <<>>
    /\ Len(Val(raised).errors) >= 3

\* C11: an exception other than GuardrailRejectionError that leaves the graph
\* reaches run_workflow's caller as a WorkflowExecutionError with stage
\* "workflow" raised from it; a GuardrailRejectionError reaches the caller as
\* it was raised, with stage "guardrail" and no wrapper.
C11_WrapsOthers ==
    raised # None =>
        IF guard_passed = Some(FALSE)
        THEN /\ Val(raised).type = "GuardrailRejectionError"
             /\ Val(raised).stage = "guardrail"
             /\ Val(raised).cause = None
        ELSE /\ Val(raised).type = "WorkflowExecutionError"
             /\ Val(raised).stage = "workflow"
             /\ Val(raised).cause # None
             /\ ~isinstance(Val(Val(raised).cause), "GuardrailRejectionError")

C11_Witness ==
    /\ pc = "raised"
    /\ raised # None
    /\ Val(raised).type = "WorkflowExecutionError"
    /\ Val(raised).stage = "workflow"
    /\ Val(raised).cause = Some("YAMLError")
    /\ trace = <<"guardrail">>

Retryable(o) == o \in {"timeout", "rate_limit"}
Count(seq, x) == Cardinality({i \in DOMAIN seq : seq[i] = x})
RetryDone == unit.fn = "call_llm_with_retry" /\ unit.result.status # "pending"

C13_SuccessAfterRetries ==
    RetryDone =>
        \A k \in 0..unit.max_retries :
            (/\ \A i \in 1..k : Retryable(unit.script[i])
             /\ unit.script[k + 1] = "ok")
            => /\ unit.result.status = "ok"
               /\ unit.result.response = Some(k + 1)
               /\ unit.result.attempts = k + 1
               /\ Count(unit.result.events, "invoke") = k + 1
               /\ unit.result.events[Len(unit.result.events)] = "invoke"

C13_Witness ==
    /\ RetryDone
    /\ unit.max_retries = 2
    /\ unit.script[1] = "timeout" /\ unit.script[2] = "rate_limit"
    /\ unit.script[3] = "ok"
    /\ unit.result.status = "ok"
    /\ unit.result.attempts = 3

\* C14: a RuntimeError that names no rate limit, raised by invocation j after
\* j-1 retried failures, leaves call_llm_with_retry as that same RuntimeError:
\* invocation j is the last event, only the j-1 earlier failures were followed
\* by a backoff sleep, whatever budget remains.
C14_FatalImmediately ==
    RetryDone =>
        \A j \in 1..(unit.max_retries + 1) :
            (/\ \A i \in 1..(j - 1) : Retryable(unit.script[i])
             /\ unit.script[j] = "error")
            => /\ unit.result.status = "RuntimeError"
               /\ unit.result.origin = Some(j)
               /\ unit.result.attempts = j
               /\ Count(unit.result.events, "invoke") = j
               /\ Count(unit.result.events, "wait") = j - 1
               /\ unit.result.events[Len(unit.result.events)] = "invoke"

C14_Witness ==
    /\ RetryDone
    /\ unit.max_retries = 3
    /\ unit.script[1] = "timeout" /\ unit.script[2] = "error"
    /\ unit.result.status = "RuntimeError"
    /\ unit.result.attempts = 2

LayeredDone ==
    unit.fn = "call_llm_with_retry_OpenRouterClient" /\ unit.result.status # "pending"
InvokeDone == unit.fn = "OpenRouterClient_invoke" /\ unit.result.status # "pending"

\* C15 as claimed: the second model is called only once the first model's
\* retry cycle is over, that is after N+1 calls of the first model or after a
\* non-retryable failure of it.
C15_Original ==
    LayeredDone =>
        LET log == unit.result.model_calls
        IN  \A p \in DOMAIN log :
                log[p].model = 2 =>
                    \/ Cardinality({q \in 1..(p - 1) : log[q].model = 1})
                           = unit.max_retries + 1
                    \/ \E q \in 1..(p - 1) :
                           /\ log[q].model = 1
                           /\ unit.matrix[log[q].attempt][1] = "error"

\* C15 amended: the retry wrapper is the outer layer and the model loop the
\* inner one. Within an attempt a model after the first is called right after
\* the model before it failed; the second model is called right after any
\* failure of the first, whatever budget remains; a new attempt starts at the
\* first model only after the last model of the list failed with a timeout or
\* rate limit; there are at most N+1 attempts for the whole list.
C15_RetryOutside ==
    LayeredDone =>
        LET log == unit.result.model_calls
            n == Len(unit.matrix[1])
        IN  /\ \A p \in DOMAIN log :
                   log[p].model # 1 =>
                       /\ p > 1
                       /\ log[p - 1] = [attempt |-> log[p].attempt,
                                        model |-> log[p].model - 1]
                       /\ unit.matrix[log[p].attempt][log[p].model - 1] # "ok"
            /\ \A p \in DOMAIN log :
                   (log[p].model = 1 /\ n >= 2
                    /\ unit.matrix[log[p].attempt][1] # "ok")
                   => /\ p < Len(log)
                      /\ log[p + 1] = [attempt |-> log[p].attempt, model |-> 2]
            /\ \A p \in DOMAIN log :
                   (log[p].model = 1 /\ p > 1) =>
                       /\ log[p - 1] = [attempt |-> log[p].attempt - 1, model |-> n]
                       /\ Retryable(unit.matrix[log[p].attempt - 1][n])
            /\ log # <<>> /\ log[1] = [attempt |-> 1, model |-> 1]
            /\ log[Len(log)].attempt = unit.result.attempts
            /\ unit.result.attempts <= unit.max_retries + 1
            /\ Count(unit.result.events, "wait") = unit.result.attempts - 1

C15_Witness ==
    /\ LayeredDone
    /\ unit.max_retries = 1
    /\ unit.matrix[1] = <<"timeout", "timeout">>
    /\ unit.matrix[2] = <<"timeout", "ok">>
    /\ unit.result.status = "ok"
    /\ unit.result.model_calls =
           <<[attempt |-> 1, model |-> 1], [attempt |-> 1, model |-> 2],
             [attempt |-> 2, model |-> 1], [attempt |-> 2, model |-> 2]>>

\* C16: OpenRouterClient.invoke calls the models in the configured order up
\* to the first that answers and returns that answer, calling none after it;
\* when every model fails with a timeout or runtime error it has called them
\* all and raises the error of the last one.
C16_FirstAnswerOrLastError ==
    InvokeDone =>
        LET row == unit.row
            oks == {j \in DOMAIN row : row[j] = "ok"}
        IN  IF oks # {}
            THEN LET first == CHOOSE j \in oks : \A k \in oks : j <= k
                 IN  /\ unit.result.status = "ok"
                     /\ unit.result.model = Some(first)
                     /\ unit.result.called = [k \in 1..first |-> k]
            ELSE /\ unit.result.status = row[Len(row)]
                 /\ unit.result.error_model = Some(Len(row))
                 /\ unit.result.called = [k \in 1..Len(row) |-> k]

C16_Witness ==
    /\ InvokeDone
    /\ unit.row = <<"timeout", "error">>
    /\ unit.result.status = "error"
    /\ unit.result.error_model = Some(2)
    /\ unit.result.called = <<1, 2>>

\* C17: a scoring stage that records a timeout or rate-limit failure of the
\* gateway has called the gateway through the retrying wrapper, that is
\* max_retries + 1 times, before recording it.
C17_ScoringRetries ==
    (\/ Logged("Scoring failed: " \o GatewayMessage("timeout"))
     \/ Logged("Scoring failed: " \o GatewayMessage("rate_limit")))
    => llm_calls.scoring = DefaultMaxRetries + 1

StageRank(n) ==
    CASE n = "guardrail" -> 1
      [] n = "structuring" -> 2
      [] n \in {"structure_check", "fallback"} -> 3
      [] n = "scoring" -> 4
      [] n = "gate" -> 5

\* C18: the stages executed in a run follow the order guardrail, structuring,
\* structure check or fallback (one rank, so never both), scoring, gate, each
\* at most once; in a completed run scoring and gate have each executed
\* exactly once, gate last, and current_stage is "gate".
C18_StageOrder ==
    /\ \A i, j \in DOMAIN trace : i < j => StageRank(trace[i]) < StageRank(trace[j])
    /\ pc = "returned" =>
           /\ Count(trace, "scoring") = 1
           /\ Count(trace, "gate") = 1
           /\ trace[Len(trace)] = "gate"
           /\ state.current_stage = "gate"

C18_Witness ==
    /\ pc = "returned"
    /\ trace = <<"guardrail", "structuring", "fallback", "scoring", "gate">>
    /\ state.current_stage = "gate"

\* C19: wherever the fallback node has executed, structuring was enabled and
\* is the stage executed just before it, structured_prd is null, and scoring is
\* the stage executed (or about to execute) right after it; it has not
\* executed when a draft exists or structuring is disabled.
C19_FallbackBranchOnly ==
    /\ \A i \in DOMAIN trace :
           trace[i] = "fallback" =>
               /\ config.enable_structuring /\ config.enable_fallback
               /\ i > 1 /\ trace[i - 1] = "structuring"
               /\ state.structured_prd = None
               /\ i < Len(trace) => trace[i + 1] = "scoring"
               /\ i = Len(trace) => pc = "scoring"
    /\ (state.structured_prd # None \/ ~config.enable_structuring)
           => ~InTrace("fallback") /\ pc # "fallback"

C19_Witness ==
    /\ InTrace("fallback")
    /\ pc = "returned"
    /\ ~config.enable_guardrail
    /\ trace = <<"structuring", "fallback", "scoring", "gate">>
    /\ state.structured_prd = None

RoutingDone == unit.fn = "should_fallback" /\ unit.result.status # "pending"

\* C20: should_fallback returns "structure_check" iff the state handed to it
\* has a structured_prd, and "fallback_scoring" otherwise, whatever the other
\* fields of that state hold.
C20_RoutingByDraft ==
    RoutingDone =>
        /\ unit.result.label \in {"structure_check", "fallback_scoring"}
        /\ unit.result.label = "structure_check" <=> unit.st.structured_prd # None

C20_Witness ==
    /\ RoutingDone
    /\ unit.st.structured_prd # None
    /\ unit.st.fallback_activated
    /\ unit.result.label = "structure_check"


\* ---------------------------------------------------------------- C21
\* the entries scoring_node's except clause can append
ScoringFailures ==
    {"Scoring failed: " \o m :
        m \in {"Rubric file not found", "validation error for TicketScoreReport"}
              \cup {GatewayMessage(o) : o \in GatewayOutcomes \ {"ok"}}}

\* C21: the scoring stage raises nothing whatever the agent does; a scoring
\* step that leaves the score report null appends exactly one "Scoring failed"
\* entry to error_logs, applies no penalty, changes no other field than the
\* stage marker and records its execution time, and a step that stores a
\* report logs nothing; the gate then runs, and a run that ends with a null
\* report ends rejected with one such entry.
C21_ScoringFailureAbsorbed ==
    /\ [][pc = "scoring"
              => (raised' = None /\ pc' = "gate"
                  /\ "scoring" \in state'.execution_times)]_vars
    /\ [][(pc = "scoring" /\ state'.score_report = None)
              => (/\ \E e \in ScoringFailures :
                        state' = [state EXCEPT
                                     !.current_stage = "scoring",
                                     !.error_logs = Append(@, e),
                                     !.execution_times = @ \cup {"scoring"}]
                  /\ pre_penalty' = pre_penalty)]_vars
    /\ [][(pc = "scoring" /\ state'.score_report # None)
              => state'.error_logs = state.error_logs]_vars
    /\ [](pc \in {"END", "returned"} /\ state.score_report = None
              => (/\ state.gate_decision = Some(FALSE)
                  /\ pre_penalty = None
                  /\ Cardinality({k \in 1..Len(state.error_logs) :
                                     state.error_logs[k] \in ScoringFailures}) = 1))

C21_Witness ==
    /\ pc = "returned"
    /\ state.score_report = None
    /\ state.fallback_activated
    /\ Logged("Scoring failed: validation error for TicketScoreReport")
    /\ "scoring" \in state.execution_times
    /\ state.gate_decision = Some(FALSE)
    /\ raised = None

\* ---------------------------------------------------------------- C22
\* the entries structuring_agent_node's except clauses can append
StructuringFailures ==
    {"Structuring: " \o m :
        m \in {"LLM call failed", "Failed to parse JSON from LLM response",
               "LLM output failed schema validation"}}
    \cup {"Structuring unexpected error"}

\* C22: the structuring stage raises nothing; a structuring step that
\* produces no draft returns the state with structured_prd null,
\* current_stage "structuring_failed", exactly one new error_logs entry and
\* its execution time, and every other field as it was.
C22_StructuringFailureAbsorbed ==
    /\ [][pc = "structuring"
              => (raised' = None /\ pc' # "raised")]_vars
    /\ [][(pc = "structuring" /\ state'.structured_prd = None)
              => \E e \in StructuringFailures :
                    state' = [state EXCEPT
                                 !.structured_prd = None,
                                 !.current_stage = "structuring_failed",
                                 !.error_logs = Append(@, e),
                                 !.execution_times = @ \cup {"structuring"}]]_vars

C22_Witness ==
    /\ state.current_stage = "structuring_failed"
    /\ state.structured_prd = None
    /\ state.error_logs = <<"Structuring unexpected error">>
    /\ state.execution_times = {"guardrail", "structuring"}
    /\ llm_calls.structuring = 0
    /\ raised = None

\* ---------------------------------------------------------------- C23
\* C23: the structure check, run on a state without draft, sets
\* structure_check_passed to null and structure_errors to the empty list,
\* records execution_times["structure_check"], moves the stage marker, and
\* changes nothing else: none of the four checks leaves an error.
C23_SkipWithoutDraft ==
    [][(pc = "structure_check" /\ state.structured_prd = None)
           => (/\ state' = [state EXCEPT
                                !.current_stage = "structure_check",
                                !.structure_check_passed = None,
                                !.structure_errors = <<>>,
                                !.execution_times = @ \cup {"structure_check"}]
               /\ raised' = None)]_vars

C23_Witness ==
    /\ state.current_stage = "structure_check"
    /\ state.structured_prd = None
    /\ state.structure_check_passed = None
    /\ state.structure_errors = <<>>
    /\ "structure_check" \in state.execution_times
    /\ pc = "scoring"

\* ---------------------------------------------------------------- C24
CheckDone ==
    unit.fn = "hard_check_structure" /\ unit.result.status = "returned"

\* the messages of each of the four checks, in the order of the checks
CheckMessages ==
    <<{"Insufficient acceptance criteria"}, {"User story too short"},
      {"Title too short", "Title too long"},
      {"Title should start with an action verb"}>>

\* C24: on a state with a draft the structure check evaluates all four
\* checks (at least 2 acceptance criteria, trimmed story of at least 20
\* characters, trimmed title of 10 to 200 characters, first title word
\* starting with an action verb) whatever the earlier ones found: the error
\* list holds exactly one message per failing check, in the order of the
\* checks, and structure_check_passed is true exactly when the list is empty.
C24_AllChecksNoShortCircuit ==
    CheckDone =>
        LET prd == Val(unit.st.structured_prd)
            errors == unit.result.state.structure_errors
            failing == (IF prd.ac_count >= 2 THEN {} ELSE {1})
                       \cup (IF prd.user_story_len >= 20 THEN {} ELSE {2})
                       \cup (IF prd.title_len >= 10 /\ prd.title_len <= 200
                             THEN {} ELSE {3})
                       \cup (IF prd.title_verb THEN {} ELSE {4})
        IN  /\ Len(errors) = Cardinality(failing)
            /\ \A i \in failing :
                   \E k \in 1..Len(errors) : errors[k] \in CheckMessages[i]
            /\ \A k1, k2 \in 1..Len(errors) : \A i1, i2 \in 1..4 :
                   (k1 < k2 /\ errors[k1] \in CheckMessages[i1]
                            /\ errors[k2] \in CheckMessages[i2]) => i1 < i2
            /\ unit.result.state.structure_check_passed = Some(errors = <<>>)
            /\ "structure_check" \in unit.result.state.execution_times

C24_Witness ==
    /\ CheckDone
    /\ unit.result.state.structure_errors =
           <<"Insufficient acceptance criteria", "User story too short",
             "Title too long", "Title should start with an action verb">>
    /\ unit.result.state.structure_check_passed = Some(FALSE)

\* ---------------------------------------------------------------- C25
\* C25: get_llm_client constructs the client at most once in the process, and
\* every call, in whatever thread and however the calls overlap, returns the
\* same instance.
C25_SingleClient ==
    /\ constructed <= 1
    /\ \A t1, t2 \in DOMAIN threads :
          \A c1 \in threads[t1].clients, c2 \in threads[t2].clients : c1 = c2

\* ---------------------------------------------------------------- C26
\* the list and dict objects a thread's state dict refers to
Containers(t) ==
    IF threads[t].state = None THEN {}
    ELSE {Val(threads[t].state).error_logs,
          Val(threads[t].state).execution_times,
          Val(threads[t].state).structure_errors}

\* C26: concurrent runs share no mutable run state: the state dicts of two
\* runs never refer to a common container; a run's state, when created, has
\* empty error_logs, execution_times and structure_errors and null or false
\* optional fields whatever the other runs have done; and a step of one run
\* leaves every field of every other run's state as it was.
C26_RunsIsolated ==
    /\ [](\A t1, t2 \in DOMAIN threads :
             t1 # t2 => Containers(t1) \cap Containers(t2) = {})
    /\ [][\A t \in DOMAIN threads :
             (threads[t].state = None /\ threads'[t].state # None)
                 => View(t)' = Some(create_initial_state(ConcPacket))]_vars
    /\ [][\A t, u \in DOMAIN threads :
             (t # u /\ threads'[t] # threads[t]) => View(u)' = View(u)]_vars

C26_Witness ==
    /\ pc = "threads"
    /\ threads[1].pc = "gate"
    /\ threads[2].pc = "fallback"
    /\ Val(View(1)).error_logs = <<"Scoring failed: LLM request timeout">>
    /\ Val(View(2)).error_logs = <<"Structuring: LLM call failed">>
    /\ Val(View(1)).structured_prd # None
    /\ Val(View(1)).structure_check_passed # None
    /\ Val(View(2)).fallback_activated = FALSE

\* ---------------------------------------------------------------- C27
\* C27: the fallback-activation stage changes exactly two fields of the
\* state: fallback_activated becomes true and one fixed message is appended
\* to error_logs; and no stage sets fallback_activated back to false.
C27_FallbackFrame ==
    /\ [][pc = "fallback"
              => state' = [state EXCEPT
                    !.fallback_activated = TRUE,
                    !.error_logs = Append(@,
                        "Fallback activated: scoring will use raw text")]]_vars
    /\ [][state.fallback_activated => state'.fallback_activated]_vars

C27_Witness ==
    /\ pc = "returned"
    /\ InTrace("fallback")
    /\ state.fallback_activated
    /\ state.current_stage = "gate"
    /\ state.score_report # None
    /\ Logged("Fallback activated: scoring will use raw text")

\* ---------------------------------------------------------------- C28
IsPrefix(a, b) == Len(a) <= Len(b) /\ SubSeq(b, 1, Len(a)) = a

\* C28: error_logs is append-only: at every step of a run the list before the
\* step is a prefix of the list after it.
C28_AppendOnly ==
    [][IsPrefix(state.error_logs, state'.error_logs)]_vars

C28_Witness ==
    /\ pc = "returned"
    /\ state.error_logs = <<"Structuring: LLM call failed",
                            "Fallback activated: scoring will use raw text",
                            "Scoring failed: LLM API error",
                            "Gate decision: REJECT (no score report)">>

\* ---------------------------------------------------------------- C29
PrepareDone ==
    unit.fn = "_prepare_scoring_input" /\ unit.result.status = "returned"

\* C29: the packet handed to the scoring agent has the original packet's
\* source type, project key, priority, ticket type and attachments; its
\* raw_text is the rendered draft (as the packet's validator stores it, that
\* is stripped) when a draft exists and the original raw text otherwise.
C29_ScoringPacketFrame ==
    PrepareDone =>
        LET original == unit.packet
            handed == unit.result.packet
        IN  /\ handed.source_type = original.source_type
            /\ handed.project_key = original.project_key
            /\ handed.priority = original.priority
            /\ handed.ticket_type = original.ticket_type
            /\ handed.attachments = original.attachments
            /\ handed.raw_text =
                   IF unit.structured_prd = None THEN original.raw_text
                   ELSE strip(format_prd_for_scoring(Val(unit.structured_prd)))

\* ---------------------------------------------------------------- C30
\* C30 as stated: every completed run with structuring enabled has a
\* "structure_check" entry in execution_times.
C30_Original ==
    (pc = "returned" /\ config.enable_structuring)
        => "structure_check" \in state.execution_times

\* C30: a completed run with structuring enabled has a "structure_check"
\* entry in execution_times exactly when it did not take the fallback branch;
\* this includes the runs in which structuring produced no draft and the
\* check, entered because fallback is disabled, is skipped.
C30_StructureCheckTimed ==
    (pc = "returned" /\ config.enable_structuring)
        => (("structure_check" \in state.execution_times)
                <=> ~state.fallback_activated)

C30_Witness ==
    /\ pc = "returned"
    /\ config.enable_structuring
    /\ state.structured_prd = None
    /\ state.structure_check_passed = None
    /\ ~state.fallback_activated
    /\ "structure_check" \in state.execution_times


\* ---------------------------------------------------------------- C31
GuardrailNodeDone ==
    unit.fn = "input_guardrail_node" /\ unit.result.status # "pending"

\* the text holds a PII kind the guardrail's configuration has enabled, and
\* nothing else the guardrail objects to
OnlyEnabledPii(text, gc) ==
    /\ gc.pii_enabled
    /\ text.pii \cap gc.pii_patterns # {}
    /\ text.len >= gc.min_length /\ text.len <= gc.max_length
    /\ text.inj = {}

\* C31: the guardrail stage of a run applies the strictness selected by
\* WorkflowConfig.guardrail_mode: input with an enabled PII pattern (and no
\* other defect) is rejected with reason pii_detected when guardrail_mode is
\* strict, and passes with a warning when guardrail_mode is lenient.
C31_ConfigSelectsStrictness ==
    (GuardrailNodeDone /\ OnlyEnabledPii(unit.st.packet.raw_text, unit.gc)) =>
        IF unit.config.guardrail_mode = "strict"
        THEN /\ unit.result.status = "raised"
             /\ Val(unit.result.exc).rejection_reason = "pii_detected"
        ELSE /\ unit.result.status = "returned"
             /\ unit.result.validation.warnings # <<>>

\* ---------------------------------------------------------------- C32
\* C32: with WorkflowConfig.max_retries = N, each LLM-calling stage of a run
\* calls the gateway at most N + 1 times.
C32_ConfigBoundsRetries ==
    /\ llm_calls.structuring <= config.max_retries + 1
    /\ llm_calls.scoring <= config.max_retries + 1

\* ---------------------------------------------------------------- C33
ValidateDone == unit.fn = "validate" /\ unit.result.status = "returned"

\* the mode validate works with: the argument, or the configuration's default
EffectiveMode(mode, gc) == IF mode = None THEN gc.default_mode ELSE Val(mode)

\* the errors and warnings the PII check can add
PiiMessages == {ErrPII(t) : t \in SeqToSet(PII_PATTERNS)}

\* passed as the length and injection checks alone leave it
PassedWithoutPii(text, gc) ==
    /\ text.len >= gc.min_length /\ text.len <= gc.max_length
    /\ ~(gc.inj_enabled /\ gc.inj_action = "reject"
         /\ text.inj \cap SeqToSet(gc.inj_patterns) # {})

\* C33 as stated: strictness of the PII check is the effective mode alone.
C33_Original ==
    (ValidateDone /\ unit.gc.pii_enabled
        /\ unit.text.pii \cap unit.gc.pii_patterns # {}) =>
        LET r == unit.result.result
        IN  /\ r.pii_detected # <<>>
            /\ IF EffectiveMode(unit.mode, unit.gc) = "strict"
               THEN /\ r.passed = FALSE
                    /\ SeqToSet(r.errors) \cap PiiMessages # {}
               ELSE /\ SeqToSet(r.warnings) \cap PiiMessages # {}
                    /\ SeqToSet(r.errors) \cap PiiMessages = {}
                    /\ r.passed = PassedWithoutPii(unit.text, unit.gc)

\* C33: validate on text matching an enabled PII pattern fails the result
\* (passed = false, PII error added) when the effective mode or the PII
\* section's own mode is strict; when both are lenient it only adds a warning
\* and leaves passed as the other checks set it; pii_detected records every
\* matched kind in both cases.
C33_PiiSeverity ==
    (ValidateDone /\ unit.gc.pii_enabled
        /\ unit.text.pii \cap unit.gc.pii_patterns # {}) =>
        LET r == unit.result.result
        IN  /\ SeqToSet(r.pii_detected) = unit.text.pii \cap unit.gc.pii_patterns
            /\ IF EffectiveMode(unit.mode, unit.gc) = "strict"
                  \/ unit.gc.pii_mode = "strict"
               THEN /\ r.passed = FALSE
                    /\ SeqToSet(r.errors) \cap PiiMessages # {}
                    /\ SeqToSet(r.warnings) \cap PiiMessages = {}
               ELSE /\ SeqToSet(r.warnings) \cap PiiMessages # {}
                    /\ SeqToSet(r.errors) \cap PiiMessages = {}
                    /\ r.passed = PassedWithoutPii(unit.text, unit.gc)

C33_Witness ==
    /\ ValidateDone
    /\ unit.mode = Some("lenient")
    /\ unit.gc.pii_enabled /\ unit.gc.pii_mode = "lenient"
    /\ unit.text.pii = {"email", "phone"}
    /\ unit.result.result.passed
    /\ unit.result.result.warnings = <<ErrPII("email"), ErrPII("phone")>>
    /\ Len(unit.result.result.pii_detected) = 2

\* ---------------------------------------------------------------- C34
\* C34: when the injection action is sanitize and a configured phrase occurs
\* in the input, the guardrail stage passes with a warning and the text in the
\* state it hands to the later stages holds no configured phrase any more.
C34_SanitizedTextUsed ==
    (GuardrailNodeDone /\ unit.gc.inj_enabled /\ unit.gc.inj_action = "sanitize"
        /\ unit.st.packet.raw_text.inj \cap SeqToSet(unit.gc.inj_patterns) # {}
        /\ unit.result.status = "returned") =>
        /\ unit.result.validation.warnings # <<>>
        /\ unit.result.state.packet.raw_text.inj
               \cap SeqToSet(unit.gc.inj_patterns) = {}

\* ---------------------------------------------------------------- C38
\* C38: a rejection whose only error is the prompt-injection error, raised
\* while PII was detected but only warned about, has the reason
\* prompt_injection.
C38_InjectionOnlyReason ==
    (raised # None /\ guard_passed = Some(FALSE)
        /\ Val(raised).errors = <<ErrInjection>>
        /\ Val(raised).pii_detected # <<>>)
        => Val(raised).rejection_reason = "prompt_injection"


\* ---------------------------------------------------------------- C35
\* C35: call_llm_with_retry sleeps only between a retryable failure and the
\* next attempt: a call that made a attempts slept exactly a - 1 times, each
\* sleep right after a timeout or rate limit and right before the next
\* invocation, none after the last attempt; the k-th sleep lasts
\* min(max_wait, max(min_wait, 2^(k-1))) seconds, lies between min_wait and
\* max_wait (2 and 10), and the sleeps never get shorter.
C35_BackoffWaits ==
    RetryDone =>
        LET ev == unit.result.events
            w == unit.result.waits
            a == unit.result.attempts
        IN  /\ Len(ev) = 2 * a - 1
            /\ \A n \in 1..Len(ev) :
                   ev[n] = (IF n % 2 = 1 THEN "invoke" ELSE "wait")
            /\ \A k \in 1..(a - 1) : Retryable(unit.script[k])
            /\ Len(w) = a - 1
            /\ \A k \in 1..Len(w) :
                   /\ w[k] = Min(10, Max(2, 2 ^ (k - 1)))
                   /\ w[k] >= 2 /\ w[k] <= 10
                   /\ k > 1 => w[k] >= w[k - 1]

C35_Witness ==
    /\ RetryDone
    /\ unit.max_retries = 5
    /\ unit.result.status = "LLMRateLimitError"
    /\ unit.result.attempts = 6
    /\ unit.result.waits = <<2, 2, 4, 8, 10>>
    /\ unit.result.events[Len(unit.result.events)] = "invoke"


\* ---------------------------------------------------------------- C36
\* C36: every degraded run that returns explains itself in error_logs: when
\* the score report is null the log holds a "Scoring failed" entry, when
\* fallback_activated is true it holds the fallback entry, when structuring
\* ran and left no draft it holds a structuring entry; in each of these cases
\* error_logs is not empty.
C36_DegradedExplained ==
    pc = "returned" =>
        /\ state.score_report = None =>
               \E k \in DOMAIN state.error_logs :
                   state.error_logs[k] \in ScoringFailures
        /\ state.fallback_activated =>
               Logged("Fallback activated: scoring will use raw text")
        /\ (InTrace("structuring") /\ state.structured_prd = None) =>
               \E k \in DOMAIN state.error_logs :
                   state.error_logs[k] \in StructuringFailures
        /\ (\/ state.score_report = None
            \/ state.fallback_activated
            \/ (InTrace("structuring") /\ state.structured_prd = None))
               => state.error_logs # <<>>

C36_Witness ==
    /\ pc = "returned"
    /\ InTrace("structuring")
    /\ state.structured_prd = None
    /\ state.fallback_activated
    /\ state.score_report # None
    /\ Len(state.error_logs) = 2
    /\ state.error_logs[1] \in StructuringFailures
    /\ state.error_logs[2] = "Fallback activated: scoring will use raw text"

\* ---------------------------------------------------------------- C37
StructureCheckValues == {None, Some(TRUE), Some(FALSE)}

\* C37: the gate decision does not depend on the structure check: the gate
\* step stores the decision it would store for the same report and ticket
\* category under every value of structure_check_passed; the structure check
\* is always followed by scoring, without an exception; and a report scored
\* without fallback carries the score the agent gave, whatever the check said.
C37_GateIgnoresStructureCheck ==
    /\ [][pc = "gate" =>
             \A x \in StructureCheckValues :
                 LET other == gate_outcome(
                         [state EXCEPT !.structure_check_passed = x], rubric)
                 IN  other.exc = None => state'.gate_decision = other.decision]_vars
    /\ [][pc = "structure_check" => (pc' = "scoring" /\ raised' = None)]_vars
    /\ [][(pc = "scoring" /\ state'.score_report # None
              /\ ~state.fallback_activated)
             => Val(state'.score_report).total_score = Val(pre_penalty')]_vars

C37_Witness ==
    /\ pc = "returned"
    /\ InTrace("structure_check")
    /\ state.structure_check_passed = Some(FALSE)
    /\ ~state.fallback_activated
    /\ state.gate_decision = Some(TRUE)
    /\ Val(state.score_report).total_score = Val(pre_penalty)

====
